---- MODULE Spec2Model ----
(***************************************************************************)
(* Verification model of the Jarvis Discord bot (Garry-Marshall/Jarvis).   *)
(*                                                                         *)
(* Four state machines share this module, each with its own specification: *)
(*   Spec           query_lmstudio / reset_conversation on one session     *)
(*                  (src/bot.py 265-424): history, preload, rollback       *)
(*   SpecNormalize  the role-normalization pass of query_lmstudio          *)
(*                  (src/bot.py 310-327) as a function of any history      *)
(*   SpecDisplay    the consumer loop of on_message (src/bot.py 573-626)   *)
(*   SpecRate       check_rate_limit (src/services/search.py 64-104)       *)
(* A specification leaves the variables of the other machines untouched.   *)
(***************************************************************************)
EXTENDS Integers, Sequences, FiniteSets, TLC

(***************************************************************************)
(* Configuration (src/bot.py 87-88).  Both are read from the environment   *)
(* (defaults 10 and 5); the model runs the configuration below.            *)
(***************************************************************************)
MAX_HISTORY == 2
MAX_RESPONSE_TIMES == 1
CONTEXT_MESSAGES == 2

(***************************************************************************)
(* on_message (src/bot.py 578, 590, 609).  Time is counted in ticks,       *)
(* TicksPerSecond to the second.  The two size limits of the display       *)
(* (1900 characters for an intermediate edit, 2000 for a message) are      *)
(* scaled down so that the texts of the model cross them.                  *)
(***************************************************************************)
UpdateIntervalSeconds == 1
DISPLAY_LIMIT == 3
MESSAGE_LIMIT == 6

(* Bounds of the model. *)
MaxExchanges == 2
MaxDeltas == 2
MaxNormLen == 5
TicksPerSecond == 2
MaxClock == 4
MaxChunks == 3

(* search.py 46-57, 80-83: the rate ceilings and windows, scaled; one tick *)
(* of the rate clock is half a MINUTE                                      *)
SEARCH_RATE_LIMIT_USER_PER_MINUTE == 1
SEARCH_RATE_LIMIT_USER_PER_HOUR == 2
SEARCH_RATE_LIMIT_GUILD_PER_MINUTE == 1
SEARCH_RATE_LIMIT_GUILD_PER_HOUR == 2
MINUTE == 2
HOUR == 6
MaxRateClock == 6
MaxWebClock == 2

(* constants.py 28-79, scaled: the trigger phrases are words over the      *)
(* letters of the texts of the model                                       *)
MIN_MESSAGE_LENGTH_FOR_SEARCH == 3
MaxTextLen == 4
MaxParts == 5
MaxItems == 4
MaxLines == 3
MaxCooldownTicks == 6
SEARCH_COOLDOWN == 2
MaxClearLen == 4
MaxPromptClock == 7
MAX_PROMPT_CHANGES_PER_HOUR == 2
MaxCalls == 3

VARIABLES
    (* ---- query_lmstudio, one session ---- *)
    history,            \* conversation_histories[conversation_id]
    context_loaded,     \* context_loaded[conversation_id]
    pc,                 \* per handler task: position in query_lmstudio
    msg,                \* per task: id of the user message of its exchange
    assistant_message,  \* per task: the local accumulator (line 347)
    api_messages,       \* per task: payload["messages"] of the request it sent
    yielded,            \* per task: the deltas the generator yielded so far
    outcome,            \* per task: how its exchange ended
    popped,             \* per task: the turn its rollback removed
    alone,              \* per task: no other exchange was in flight during it
    raced,              \* per task: another appended exchange was open when it appended
    next_msg,           \* next message id
    kept,               \* per task: no reset since its exchange began
    channel_stats,      \* channel_stats[conversation_id]: total_messages and the
                        \* number of response_times
    completed,          \* exchanges persisted since the latest reset
    dropped,            \* the turns the trim of the open exchange's append dropped
    fetches,            \* calls of get_recent_context since the latest reset
    plain,              \* so far: exchanges one at a time, each persisted or
                        \* rolled back, and no reset
    (* ---- normalization, as a function ---- *)
    norm_in, norm_out, norm_pc,
    norm_stored,        \* the stored history once the pass has run
    (* ---- on_message, one message ---- *)
    hide_thinking,      \* HIDE_THINKING (bot.py 95), fixed at start
    d_pc,               \* position in on_message
    response_text,      \* the local buffer (line 576)
    last_update,        \* line 577
    now,                \* time.time(), in ticks
    status,             \* the status message on the display
    sent,               \* the messages sent at line 613
    chunks,             \* number of chunks received from the generator
    n_edits,            \* number of intermediate edits made so far
    n_placeholders,     \* status messages created for the message
    n_final,            \* finalizations of the status message
    last_edit,          \* arrival time of the chunk that made the latest one (-1: none)
    (* ---- services/search.py, rate limiting ---- *)
    user_search_history,    \* search.py 60: user id -> timestamps
    guild_search_history,   \* search.py 61: guild id -> timestamps
    rate_now,               \* datetime.now(), in ticks
    rate_result,            \* what the latest check_rate_limit call returned
    rate_at,                \* the time of that call (-1: no call yet)
    (* ---- services/search.py, get_web_context (one call at a time: it   *)
    (*      never awaits) ---- *)
    w_pc,                   \* position in get_web_context
    w_user, w_guild,        \* its user_id and guild_id arguments (0: None)
    w_backend,              \* its backend argument
    w_limiter,              \* what the rate limiter did in this call
    w_calls,                \* the backends invoked by this call, in order
    w_outcomes,             \* how each of these invocations ended
    w_result,               \* what the call returned
    w_raised,               \* the call raised to its caller
    (* ---- services/search.py, should_trigger_search, as a function ---- *)
    trig_text, trig_out, trig_pc,
    (* ---- remove_thinking_tags and is_inside_thinking_tags, as functions ---- *)
    f_parts,            \* the pieces the input text is made of, in order
    f_out,              \* remove_thinking_tags(text)
    f_twice,            \* remove_thinking_tags(remove_thinking_tags(text))
    f_inside,           \* is_inside_thinking_tags(text)
    f_pc,
    (* ---- the per-session dictionaries, two sessions ---- *)
    conversation_histories,  \* conversation_id -> list of turns
    context_loaded_of,       \* conversation_id -> context_loaded flag
    channel_stats_of,        \* conversation_id -> statistics
    sess_pc,                 \* per session: where its open exchange stands
    sess_msg,                \* per session: the message id of its exchange
    sess_next,               \* next message id
    sess_last,               \* the session the latest operation was on (0: none yet)
    (* ---- ShutdownHandler ---- *)
    sd_pc,                   \* where the process stands
    loop_is_running,         \* an event loop is running in the main thread
    sd_signal,               \* the signal being handled
    shutdown_initiated,      \* ShutdownHandler.shutdown_initiated
    stats_save,              \* save_stats(): "none", or how the call ended
    settings_save,           \* save_guild_settings(): "none", or how the call ended
    cleanup_task,            \* the task made by asyncio.create_task(self.cleanup())
    (* ---- the stream loop of query_lmstudio, line by line ---- *)
    lines,                   \* the lines of response.content
    line_no,                 \* the next line to read
    stream_message,          \* assistant_message, fragment by fragment
    stream_yielded,          \* what the generator has yielded
    stream_pc,
    (* ---- the per-guild search cooldown ---- *)
    search_cooldowns,        \* guild -> time of its last search, in ticks (0: no entry)
    cd_now,                  \* time.time(), in ticks
    cd_guild,                \* argument of the latest check_search_cooldown
    cd_result,               \* what it returned
    cd_at,                   \* when it returned
    (* ---- ConfigView.clear_last ---- *)
    cl_history,              \* the list get_conversation_history returned
    cl_before,               \* that list when the button was pressed
    cl_pc,
    (* ---- validate_system_prompt ---- *)
    prompt_change_timestamps,
    pr_now,                  \* datetime.now(), in ticks
    pr_call,                 \* the last call: guild, reason, result
    accepted_at,             \* per guild: the times of every accepted call
    (* ---- ShutdownHandler.cleanup, several calls ---- *)
    cleanup_calls,           \* per call: where it is
    attempts,                \* the steps attempted, in order, with the call
    raised                   \* the steps that raised

chatVars == <<history, context_loaded, pc, msg, assistant_message, api_messages,
              yielded, outcome, popped, alone, raced, next_msg, kept, plain, fetches,
              channel_stats, completed, dropped>>
normVars == <<norm_in, norm_out, norm_pc, norm_stored>>
dispVars == <<hide_thinking, d_pc, response_text, last_update, now, status, sent,
              chunks, n_edits, last_edit, n_placeholders, n_final>>
rateVars == <<user_search_history, guild_search_history, rate_now, rate_result,
              rate_at>>
webVars == <<w_pc, w_user, w_guild, w_backend, w_limiter, w_calls, w_outcomes,
             w_result, w_raised>>
trigVars == <<trig_text, trig_out, trig_pc>>
filterVars == <<f_parts, f_out, f_twice, f_inside, f_pc>>
streamVars == <<lines, line_no, stream_message, stream_yielded, stream_pc>>
shutVars == <<sd_pc, loop_is_running, sd_signal, shutdown_initiated, stats_save,
              settings_save, cleanup_task>>
sessVars == <<conversation_histories, context_loaded_of, channel_stats_of, sess_pc,
              sess_msg, sess_next, sess_last>>
coolVars == <<search_cooldowns, cd_now, cd_guild, cd_result, cd_at>>
oldVars == <<chatVars, normVars, dispVars, rateVars, webVars, trigVars, filterVars, sessVars,
             shutVars, streamVars>>
clearVars == <<cl_history, cl_before, cl_pc>>
promptVars == <<prompt_change_timestamps, pr_now, pr_call, accepted_at>>
callVars == <<cleanup_calls, attempts, raised>>
restVars == <<coolVars, clearVars, promptVars, callVars>>
vars == <<chatVars, normVars, dispVars, rateVars, webVars, trigVars, filterVars, sessVars, shutVars, streamVars, restVars>>

(* what the steps of one part of the program leave alone *)
notChat == <<normVars, dispVars, rateVars, webVars, trigVars, filterVars, sessVars, shutVars, streamVars, restVars>>
notNorm == <<chatVars, dispVars, rateVars, webVars, trigVars, filterVars, sessVars, shutVars, streamVars, restVars>>
notDisp == <<chatVars, normVars, rateVars, webVars, trigVars, filterVars, sessVars, shutVars, streamVars, restVars>>
notRate == <<chatVars, normVars, dispVars, webVars, trigVars, filterVars, sessVars, shutVars, streamVars, restVars>>
notWeb == <<chatVars, normVars, dispVars, trigVars, filterVars, sessVars, shutVars, streamVars, restVars>>
notTrig == <<chatVars, normVars, dispVars, rateVars, webVars, filterVars, sessVars, shutVars, streamVars, restVars>>
notFilter == <<chatVars, normVars, rateVars, webVars, trigVars, sessVars, shutVars, streamVars, restVars>>
notSess == <<chatVars, normVars, dispVars, rateVars, webVars, trigVars, filterVars, shutVars, streamVars, restVars>>
notShut == <<chatVars, normVars, dispVars, rateVars, webVars, trigVars, filterVars, streamVars, restVars>>
notStream == <<chatVars, normVars, dispVars, rateVars, webVars, trigVars, filterVars, sessVars,
               shutVars, restVars>>
notCool == <<oldVars, clearVars, promptVars, callVars>>
notClear == <<oldVars, coolVars, promptVars, callVars>>
notPrompt == <<oldVars, coolVars, clearVars, callVars>>
notCalls == <<chatVars, normVars, dispVars, rateVars, webVars, trigVars, filterVars, sessVars,
              streamVars, coolVars, clearVars, promptVars>>

Tasks == {1, 2}

(***************************************************************************)
(* Turns.  A turn is {"role": ..., "content": ...}.  The content of a user *)
(* turn is identified by the id of the message that carried it (negative   *)
(* ids: turns fetched by get_recent_context); the content of an assistant  *)
(* turn is the sequence of deltas it was accumulated from.  The synthetic  *)
(* turn {"role": "assistant", "content": "Understood."} has id 0.          *)
(***************************************************************************)
Turn(role, id, text) == [role |-> role, id |-> id, text |-> text]
UserTurn(id) == Turn("user", id, <<>>)
AssistantTurn(id, text) == Turn("assistant", id, text)
Understood == Turn("assistant", 0, <<>>)
NoTurn == Turn("none", 0, <<>>)

Last(s) == s[Len(s)]
ButLast(s) == SubSeq(s, 1, Len(s) - 1)
Contains(s, x) == \E i \in 1..Len(s) : s[i] = x

(* get_recent_context: at most `limit` user turns, oldest first; [] on error *)
RecentContext(n) == [k \in 1..n |-> UserTurn(0 - k)]

(* bot.py 307-308: keep the most recent MAX_HISTORY * 2 entries *)
TrimDropNewest(h) ==
    IF Len(h) > MAX_HISTORY * 2 THEN SubSeq(h, 1, MAX_HISTORY * 2) ELSE h
Trim(h) ==
    IF Len(h) > MAX_HISTORY * 2
    THEN SubSeq(h, Len(h) - MAX_HISTORY * 2 + 1, Len(h))
    ELSE h

(* bot.py 312-324: the loop over the stored history *)
RECURSIVE NormalizeLoopDropping(_, _, _)
NormalizeLoopDropping(h, i, api) ==
    IF i > Len(h) THEN api
    ELSE LET m == h[i] IN
         IF api # <<>> /\ m.role = Last(api).role
         THEN NormalizeLoopDropping(h, i + 1, api)
         ELSE NormalizeLoopDropping(h, i + 1, Append(api, m))
RECURSIVE NormalizeLoop(_, _, _)
NormalizeLoop(h, i, api) ==
    IF i > Len(h) THEN api
    ELSE LET m == h[i] IN
         IF api # <<>> /\ m.role = Last(api).role
         THEN IF m.role = "user"
              THEN NormalizeLoop(h, i + 1, Append(Append(api, Understood), m))
              ELSE NormalizeLoop(h, i + 1, api)
         ELSE NormalizeLoop(h, i + 1, Append(api, m))

(* bot.py 326-327 *)
KeepTrailingAssistant(api) == api
DropTrailingAssistant(api) ==
    IF api # <<>> /\ Last(api).role = "assistant" THEN ButLast(api) ELSE api

(* bot.py 310-327 write to the new list api_messages only: the stored     *)
(* list is read, element by element, and left as it is                     *)
StoredAfterAliased(h) == DropTrailingAssistant(NormalizeLoop(h, 1, <<>>))
StoredAfter(h) == h

(* bot.py 310-327: api_messages built from the stored history *)
BuildApiMessages(h) == DropTrailingAssistant(NormalizeLoop(h, 1, <<>>))

(* bot.py 361: assistant_message += content *)
AccumulateLatestOnly(acc, d) == <<d>>
Accumulate(acc, d) == Append(acc, d)

(* bot.py 378-381: the raw answer appended at the tail *)
PersistFirst(h, id, text) == <<AssistantTurn(id, text)>> \o h
Persist(h, id, text) == Append(h, AssistantTurn(id, text))

(* bot.py 391/395/399: conversation_histories[conversation_id].pop() *)
PopFirst(h) == [rest |-> SubSeq(h, 2, Len(h)), item |-> h[1]]
Pop(h) == [rest |-> ButLast(h), item |-> Last(h)]

(* bot.py 113-119, 383-387, 417-423: the statistics of the session *)
NoStats == [total_messages |-> 0, response_times |-> 0]
(* variant: one message counted per exchange *)
RecordedOnce(stats) ==
    [total_messages |-> stats.total_messages + 1,
     response_times |-> stats.response_times + 1]

Recorded(stats) ==
    [total_messages |-> stats.total_messages + 2,
     response_times |-> stats.response_times + 1]

InFlight(t) == pc[t] \in {"fetching", "posted", "streaming"}
Appended(t) == pc[t] \in {"posted", "streaming"}

(* discord.py runs each on_message call as a task of its own; the model    *)
(* has two handler slots and a new message takes the lowest free one.      *)
FreeSlot(t) == pc[t] = "idle" /\ \A o \in Tasks : o < t => pc[o] # "idle"

(***************************************************************************)
(* query_lmstudio                                                          *)
(***************************************************************************)
(* line 265: a new call; the slot's record of its previous exchange goes   *)
NewExchange(t) ==
    /\ FreeSlot(t)
    /\ next_msg <= MaxExchanges
    /\ msg' = [msg EXCEPT ![t] = next_msg]
    /\ next_msg' = next_msg + 1
    /\ assistant_message' = [assistant_message EXCEPT ![t] = <<>>]
    /\ yielded' = [yielded EXCEPT ![t] = <<>>]
    /\ outcome' = [outcome EXCEPT ![t] = "none"]
    /\ popped' = [popped EXCEPT ![t] = NoTurn]
    /\ alone' = [o \in Tasks |->
                   IF o = t THEN \A x \in Tasks \ {t} : ~InFlight(x)
                   ELSE alone[o] /\ ~InFlight(o)]
    /\ kept' = [kept EXCEPT ![t] = TRUE]
    /\ plain' = (plain /\ \A x \in Tasks \ {t} : ~InFlight(x))

(* lines 285-341, run without suspension: append the user turn, trim,      *)
(* build api_messages; the task then waits on session.post.                *)
AppendAndSend(t, id, h) ==
    LET h1 == Trim(Append(h, UserTurn(id))) IN
    /\ history' = h1
    /\ api_messages' = [api_messages EXCEPT ![t] = BuildApiMessages(h1)]
    /\ pc' = [pc EXCEPT ![t] = "posted"]
    /\ raced' = [o \in Tasks |->
                   IF o = t THEN \E x \in Tasks \ {t} : Appended(x)
                   ELSE raced[o] \/ Appended(o)]
    /\ dropped' = SubSeq(h, 1, Len(h) + 1 - Len(h1))

(* lines 267-269, no context to load: straight on to the append *)
Begin(t) ==
    /\ NewExchange(t)
    /\ ~(Len(history) = 0 /\ ~context_loaded /\ CONTEXT_MESSAGES > 0)
    /\ AppendAndSend(t, next_msg, history)
    /\ UNCHANGED <<context_loaded, fetches, channel_stats, completed>>
    /\ UNCHANGED notChat

(* lines 269-270: history empty and context not loaded: await get_recent_context *)
BeginFetch(t) ==
    /\ NewExchange(t)
    /\ Len(history) = 0 /\ ~context_loaded /\ CONTEXT_MESSAGES > 0
    /\ pc' = [pc EXCEPT ![t] = "fetching"]
    /\ raced' = [raced EXCEPT ![t] = FALSE]
    /\ fetches' = fetches + 1
    /\ UNCHANGED <<history, context_loaded, api_messages, channel_stats, completed, dropped>>
    /\ UNCHANGED notChat

(* lines 270-341: get_recent_context returned n turns (0 when it failed) *)
FetchReturn(t) ==
    /\ pc[t] = "fetching"
    /\ \E n \in 0..CONTEXT_MESSAGES :
         AppendAndSend(t, msg[t], history \o RecentContext(n))
    /\ context_loaded' = TRUE
    /\ UNCHANGED <<fetches, channel_stats, completed, msg, assistant_message, yielded, outcome, popped, alone, next_msg,
                   kept, plain>>
    /\ UNCHANGED notChat

(* lines 345-347: the backend answered 200 *)
Respond200(t) ==
    /\ pc[t] = "posted"
    /\ pc' = [pc EXCEPT ![t] = "streaming"]
    /\ assistant_message' = [assistant_message EXCEPT ![t] = <<>>]
    /\ api_messages' = [api_messages EXCEPT ![t] = <<>>]
    /\ UNCHANGED <<history, context_loaded, fetches, channel_stats, completed, msg, yielded, outcome,
                   popped, alone, raced, next_msg, dropped, kept, plain>>
    /\ UNCHANGED notChat

(* lines 388-400: the rollback of a failure path.  pop() on an empty list   *)
(* raises IndexError: out of the else branch it is caught by the handler at *)
(* 397, whose own pop() raises again, so the generator ends by raising and  *)
(* yields no error text.                                                    *)
Fail(t, kind) ==
    /\ IF Len(history) > 0
       THEN /\ history' = Pop(history).rest
            /\ popped' = [popped EXCEPT ![t] = Pop(history).item]
            /\ outcome' = [outcome EXCEPT ![t] = kind]
            /\ plain' = plain
       ELSE /\ history' = history
            /\ popped' = [popped EXCEPT ![t] = NoTurn]
            /\ outcome' = [outcome EXCEPT ![t] = "raised"]
            /\ plain' = FALSE
    /\ pc' = [pc EXCEPT ![t] = "idle"]
    /\ api_messages' = [api_messages EXCEPT ![t] = <<>>]
    /\ dropped' = <<>>

(* lines 388-392: non-200 status *)
RespondError(t) ==
    /\ pc[t] = "posted"
    /\ Fail(t, "status")
    /\ UNCHANGED <<context_loaded, fetches, channel_stats, completed, msg, assistant_message,
                   yielded, alone, raced, next_msg, kept>>
    /\ UNCHANGED notChat

(* lines 393-400: session.post or the stream raised (aiohttp.ClientError,  *)
(* or anything else, e.g. UnicodeDecodeError at line 350)                  *)
TransportError(t) ==
    /\ pc[t] \in {"posted", "streaming"}
    /\ \E kind \in {"transport", "unexpected"} : Fail(t, kind)
    /\ UNCHANGED <<context_loaded, fetches, channel_stats, completed, msg, assistant_message,
                   yielded, alone, raced, next_msg, kept>>
    /\ UNCHANGED notChat

(* lines 349-362: a data frame with non-empty content; the k-th fragment   *)
(* of a stream is the text k                                               *)
StreamDelta(t) ==
    /\ pc[t] = "streaming"
    /\ Len(yielded[t]) < MaxDeltas
    /\ LET d == Len(yielded[t]) + 1 IN
         /\ assistant_message' =
                [assistant_message EXCEPT ![t] = Accumulate(assistant_message[t], d)]
         /\ yielded' = [yielded EXCEPT ![t] = Append(yielded[t], d)]
    /\ UNCHANGED <<history, context_loaded, fetches, channel_stats, completed, pc, msg, api_messages, outcome, popped,
                   alone, raced, next_msg, dropped, kept, plain>>
    /\ UNCHANGED notChat

(* lines 353-354 / end of body, then 366-387: persist the raw answer *)
StreamEnd(t) ==
    /\ pc[t] = "streaming"
    /\ history' = Persist(history, msg[t], assistant_message[t])
    /\ pc' = [pc EXCEPT ![t] = "idle"]
    /\ outcome' = [outcome EXCEPT ![t] = "ok"]
    /\ channel_stats' = Recorded(channel_stats)
    /\ completed' = completed + 1
    /\ dropped' = <<>>
    /\ UNCHANGED <<context_loaded, fetches, msg, assistant_message, api_messages, yielded,
                   popped, alone, raced, next_msg, kept, plain>>
    /\ UNCHANGED notChat

(* The consumer abandons the generator at a yield, or the task is cancelled *)
(* at an await: GeneratorExit / CancelledError are not Exception, so no     *)
(* handler of lines 393-400 runs.                                           *)
CancelRollingBack(t) ==
    /\ pc[t] \in {"posted", "streaming"}
    /\ pc' = [pc EXCEPT ![t] = "idle"]
    /\ outcome' = [outcome EXCEPT ![t] = "cancelled"]
    /\ api_messages' = [api_messages EXCEPT ![t] = <<>>]
    /\ plain' = FALSE
    /\ history' = ButLast(history)
    /\ dropped' = <<>>
    /\ UNCHANGED <<context_loaded, fetches, channel_stats, completed, msg, assistant_message,
                   yielded, popped, alone, raced, next_msg, kept>>
    /\ UNCHANGED notChat
Cancel(t) ==
    /\ pc[t] \in {"posted", "streaming"}
    /\ pc' = [pc EXCEPT ![t] = "idle"]
    /\ outcome' = [outcome EXCEPT ![t] = "cancelled"]
    /\ api_messages' = [api_messages EXCEPT ![t] = <<>>]
    /\ plain' = FALSE
    /\ dropped' = <<>>
    /\ UNCHANGED <<history, context_loaded, fetches, channel_stats, completed, msg, assistant_message,
                   yielded, popped, alone, raced, next_msg, kept>>
    /\ UNCHANGED notChat

(* reset_conversation, lines 415-416, for a monitored channel *)
Reset ==
    /\ history' = <<>>
    /\ context_loaded' = FALSE
    /\ fetches' = 0
    /\ channel_stats' = NoStats
    /\ completed' = 0
    /\ kept' = [t \in Tasks |-> FALSE]
    /\ plain' = FALSE
    /\ dropped' = <<>>
    /\ UNCHANGED <<pc, msg, assistant_message, api_messages, yielded, outcome,
                   popped, alone, raced, next_msg>>
    /\ UNCHANGED notChat

(***************************************************************************)
(* The normalization pass as a function of an arbitrary history            *)
(***************************************************************************)
RECURSIVE HistoriesOfLen(_)
HistoriesOfLen(n) ==
    IF n = 0 THEN {<<>>}
    ELSE {Append(h, t) : h \in HistoriesOfLen(n - 1),
                         t \in {UserTurn(n), AssistantTurn(n, <<>>)}}

AnyHistory == UNION {HistoriesOfLen(n) : n \in 0..MaxNormLen}

NormalizeRun ==
    /\ norm_pc = "start"
    /\ norm_out' = BuildApiMessages(norm_in)
    /\ norm_stored' = StoredAfter(norm_in)
    /\ norm_pc' = "built"
    /\ UNCHANGED norm_in
    /\ UNCHANGED notNorm

(***************************************************************************)
(* Texts are sequences of characters.                                      *)
(***************************************************************************)
OPEN_TAG == <<"<", "t", "h", "i", "n", "k", ">">>
CLOSE_TAG == <<"<", "/", "t", "h", "i", "n", "k", ">">>
BOPEN_TAG == <<"[", "T", "H", "I", "N", "K", "]">>
BCLOSE_TAG == <<"[", "/", "T", "H", "I", "N", "K", "]">>
SELF_HEAD == <<"<", "t", "h", "i", "n", "k">>
SELF_TAIL == <<"/", ">">>
BSELF_HEAD == <<"[", "T", "H", "I", "N", "K">>
BSELF_TAIL == <<"/", "]">>
BEGIN_BOX == <<"<", "|", "b", "e", "g", "i", "n", "_", "o", "f", "_", "b", "o", "x", "|", ">">>
END_BOX == <<"<", "|", "e", "n", "d", "_", "o", "f", "_", "b", "o", "x", "|", ">">>
NL == <<"\n">>
ELLIPSIS == <<".", ".", ".">>

(* re.IGNORECASE, on the upper-case letters the texts of the model use *)
Lower(c) ==
    CASE c = "T" -> "t" [] c = "H" -> "h" [] c = "I" -> "i"
      [] c = "N" -> "n" [] c = "K" -> "k" [] OTHER -> c

(* \s of the regular expressions, and the characters str.strip() removes *)
IsSpace(c) == c \in {" ", "\n", "\t", "\r"}

(* the pattern matches the text at position i *)
MatchAt(text, i, pat) ==
    /\ i >= 1
    /\ i + Len(pat) - 1 <= Len(text)
    /\ \A k \in 1..Len(pat) : Lower(text[i + k - 1]) = Lower(pat[k])

(* first position >= i where the pattern matches, 0 when there is none *)
FindFrom(text, i, pat) ==
    LET hits == {k \in i..Len(text) : MatchAt(text, k, pat)} IN
    IF hits = {} THEN 0 ELSE CHOOSE k \in hits : \A j \in hits : k <= j

(* variant: greedy, from the first open tag to the last close tag *)
RemovePairsGreedy(text, open, close) ==
    LET opens == {i \in 1..Len(text) : MatchAt(text, i, open)}
        first == CHOOSE i \in opens : \A j \in opens : i <= j
        closes == {i \in 1..Len(text) : MatchAt(text, i, close) /\ i >= first + Len(open)}
        last == CHOOSE i \in closes : \A j \in closes : j <= i IN
    IF opens = {} \/ closes = {} THEN text
    ELSE SubSeq(text, 1, first - 1) \o SubSeq(text, last + Len(close), Len(text))

(* the least position of a non-empty set of positions *)
Leftmost(positions) == CHOOSE k \in positions : \A j \in positions : k <= j

(* re.sub(open + '.*?' + close, '', text, DOTALL | IGNORECASE): the scan   *)
(* goes on at i; the leftmost open tag with a close tag after it is        *)
(* removed up to the first such close tag                                  *)
RECURSIVE RemovePairsFrom(_, _, _, _, _)
RemovePairsFrom(text, i, open, close, out) ==
    LET starts == {k \in i..Len(text) :
                     MatchAt(text, k, open) /\ FindFrom(text, k + Len(open), close) > 0} IN
    IF starts = {} THEN out \o SubSeq(text, i, Len(text))
    ELSE LET k == Leftmost(starts)
             j == FindFrom(text, k + Len(open), close) IN
         RemovePairsFrom(text, j + Len(close), open, close, out \o SubSeq(text, i, k - 1))

RemovePairs(text, open, close) == RemovePairsFrom(text, 1, open, close, <<>>)

(* re.sub(pat, '', text, IGNORECASE) for a literal pattern *)
RECURSIVE RemoveLiteralFrom(_, _, _, _)
RemoveLiteralFrom(text, i, pat, out) ==
    LET starts == {k \in i..Len(text) : MatchAt(text, k, pat)} IN
    IF starts = {} THEN out \o SubSeq(text, i, Len(text))
    ELSE LET k == Leftmost(starts) IN
         RemoveLiteralFrom(text, k + Len(pat), pat, out \o SubSeq(text, i, k - 1))

RemoveLiteral(text, pat) == RemoveLiteralFrom(text, 1, pat, <<>>)

(* end of the run of \s characters that starts at position i (i - 1 when empty) *)
SpaceRunEnd(text, i) ==
    LET others == {k \in i..Len(text) : ~IsSpace(text[k])} IN
    IF i > Len(text) THEN i - 1
    ELSE IF others = {} THEN Len(text)
    ELSE Leftmost(others) - 1

(* re.sub(head + '\s*' + tail, '', text, IGNORECASE) *)
RECURSIVE RemoveGappedFrom(_, _, _, _, _)
RemoveGappedFrom(text, i, head, tail, out) ==
    LET starts == {k \in i..Len(text) :
                     /\ MatchAt(text, k, head)
                     /\ MatchAt(text, SpaceRunEnd(text, k + Len(head)) + 1, tail)} IN
    IF starts = {} THEN out \o SubSeq(text, i, Len(text))
    ELSE LET k == Leftmost(starts)
             g == SpaceRunEnd(text, k + Len(head)) + 1 IN
         RemoveGappedFrom(text, g + Len(tail), head, tail, out \o SubSeq(text, i, k - 1))

RemoveGapped(text, head, tail) == RemoveGappedFrom(text, 1, head, tail, <<>>)

(* the newlines after position k within the run of white space that follows it *)
NewlinesAfter(text, k) == {m \in (k + 1)..SpaceRunEnd(text, k + 1) : text[m] = "\n"}

(* re.sub(r'\n\s*\n\s*\n', '\n\n', text): a newline followed, within its    *)
(* run of white space, by two more newlines; the greedy match ends at the   *)
(* last newline of the run                                                  *)
RECURSIVE CollapseFrom(_, _, _)
CollapseFrom(text, i, out) ==
    LET starts == {k \in i..Len(text) :
                     text[k] = "\n" /\ Cardinality(NewlinesAfter(text, k)) >= 2} IN
    IF starts = {} THEN out \o SubSeq(text, i, Len(text))
    ELSE LET k == Leftmost(starts)
             nls == NewlinesAfter(text, k) IN
         CollapseFrom(text, (CHOOSE m \in nls : \A j \in nls : j <= m) + 1,
                      out \o SubSeq(text, i, k - 1) \o <<"\n", "\n">>)

CollapseBlankLines(text) == CollapseFrom(text, 1, <<>>)

(* str.strip() *)
Strip(text) ==
    LET keep == {k \in 1..Len(text) : ~IsSpace(text[k])} IN
    IF keep = {} THEN <<>>
    ELSE SubSeq(text, CHOOSE k \in keep : \A j \in keep : k <= j,
                      CHOOSE k \in keep : \A j \in keep : j <= k)

(* bot.py 162-169, with HIDE_THINKING on *)
StripThinking(text) ==
    Strip(CollapseBlankLines(
        RemoveLiteral(
            RemoveLiteral(
                RemoveGapped(
                    RemoveGapped(
                        RemovePairs(RemovePairs(text, OPEN_TAG, CLOSE_TAG),
                                    BOPEN_TAG, BCLOSE_TAG),
                        SELF_HEAD, SELF_TAIL),
                    BSELF_HEAD, BSELF_TAIL),
                BEGIN_BOX),
            END_BOX)))

(* bot.py 155-171 *)
remove_thinking_tags(text) == IF ~hide_thinking THEN text ELSE StripThinking(text)

(* variant: only the angle dialect is counted *)
InsideAngleOnly(text) ==
    IF ~hide_thinking THEN FALSE
    ELSE LET opens == {i \in 1..Len(text) : MatchAt(text, i, OPEN_TAG)}
             closes == {i \in 1..Len(text) : MatchAt(text, i, CLOSE_TAG)} IN
         Cardinality(opens) > Cardinality(closes)

(* len(re.findall(pat, text, IGNORECASE)) *)
RECURSIVE CountFrom(_, _, _)
CountFrom(text, i, pat) ==
    LET starts == {k \in i..Len(text) : MatchAt(text, k, pat)} IN
    IF starts = {} THEN 0
    ELSE 1 + CountFrom(text, Leftmost(starts) + Len(pat), pat)

Count(text, pat) == CountFrom(text, 1, pat)

(* bot.py 173-185 *)
is_inside_thinking_tags(text) ==
    IF ~hide_thinking THEN FALSE
    ELSE \/ Count(text, OPEN_TAG) > Count(text, CLOSE_TAG)
         \/ Count(text, BOPEN_TAG) > Count(text, BCLOSE_TAG)

(***************************************************************************)
(* on_message, from the placeholder on (src/bot.py 573-626)                *)
(***************************************************************************)
UPDATE_INTERVAL == UpdateIntervalSeconds * TicksPerSecond

(* what the status message shows *)
Shown(kind, text) == [kind |-> kind, text |-> text]
Placeholder == Shown("thinking", <<>>)          \* "Thinking..."
OnlyThinking == Shown("only_thinking", <<>>)    \* line 617
NoResponse == Shown("no_response", <<>>)        \* line 619
ErrorNotice == Shown("error", <<>>)             \* line 624
Deleted == Shown("deleted", <<>>)               \* line 610
NoMessage == Shown("none", <<>>)

(* the letter carried by the k-th chunk when it is plain text *)
Letters == <<"a", "b", "c", "d", "e", "f">>
Word(k) == <<Letters[k]>>
ERROR_TEXT == <<"E">>

(* a delta that fills one message *)
FullMessage == [i \in 1..MESSAGE_LIMIT |-> "m"]

(* the chunks a stream of the model can deliver as its k-th delta *)
StreamChunks(k) == {OPEN_TAG, CLOSE_TAG, NL, Word(k), FullMessage}

(* line 586 *)
IntervalElapsedEarly(current_time, last) == current_time - last >= UPDATE_INTERVAL - 1
IntervalElapsed(current_time, last) == current_time - last >= UPDATE_INTERVAL

(* variant: nothing is cut *)
TruncateNever(text) == text

(* line 590 *)
Truncate(text) ==
    IF Len(text) > DISPLAY_LIMIT THEN SubSeq(text, 1, DISPLAY_LIMIT) \o ELLIPSIS ELSE text

(* line 611: [final_response[i:i+2000] for i in range(0, len(final_response), 2000)] *)
SplitOverlapping(text) ==
    [k \in 1..((Len(text) + MESSAGE_LIMIT - 1) \div MESSAGE_LIMIT) |->
        SubSeq(text, (k - 1) * (MESSAGE_LIMIT - 1) + 1,
               IF (k - 1) * (MESSAGE_LIMIT - 1) + MESSAGE_LIMIT <= Len(text)
               THEN (k - 1) * (MESSAGE_LIMIT - 1) + MESSAGE_LIMIT ELSE Len(text))]
Split(text) ==
    [k \in 1..((Len(text) + MESSAGE_LIMIT - 1) \div MESSAGE_LIMIT) |->
        SubSeq(text, (k - 1) * MESSAGE_LIMIT + 1,
               IF k * MESSAGE_LIMIT <= Len(text) THEN k * MESSAGE_LIMIT ELSE Len(text))]

(* line 573, 576-578: the placeholder is sent, the loop state initialised *)
SendPlaceholder ==
    /\ d_pc = "start"
    /\ status' = Placeholder
    /\ last_update' = now
    /\ d_pc' = "streaming"
    /\ n_placeholders' = n_placeholders + 1
    /\ UNCHANGED <<hide_thinking, response_text, now, sent, chunks, n_edits, last_edit,
                   n_final>>
    /\ UNCHANGED notDisp

(* time passes *)
Tick ==
    /\ d_pc = "streaming"
    /\ now < MaxClock
    /\ now' = now + 1
    /\ UNCHANGED <<hide_thinking, d_pc, response_text, last_update, status, sent,
                   chunks, n_edits, last_edit, n_placeholders, n_final>>
    /\ UNCHANGED notDisp

(* variant: the filtered text is written whether or not the buffer is      *)
(* inside a reasoning segment                                              *)
LoopBodyAlwaysText(chunk, edit_ok) ==
    LET text == response_text \o chunk
        shown == Truncate(remove_thinking_tags(text))
    IN
    /\ response_text' = text
    /\ chunks' = chunks + 1
    /\ IF IntervalElapsed(now, last_update) /\ Strip(shown) # <<>> /\ edit_ok
       THEN /\ status' = Shown("text", shown)
            /\ last_update' = now
            /\ n_edits' = n_edits + 1
            /\ last_edit' = now
       ELSE UNCHANGED <<status, last_update, n_edits, last_edit>>
    /\ UNCHANGED <<hide_thinking, now, sent, n_placeholders, n_final>>

(* lines 583-603: the body of the loop for one chunk; edit_ok tells        *)
(* whether status_msg.edit succeeds or raises discord.errors.HTTPException *)
LoopBody(chunk, edit_ok) ==
    LET text == response_text \o chunk
        due == IntervalElapsed(now, last_update)
        display_text == remove_thinking_tags(text)
        inside == is_inside_thinking_tags(text)
        shown == Truncate(display_text)
        attempt == due /\ (inside \/ Strip(shown) # <<>>)
    IN
    /\ response_text' = text
    /\ chunks' = chunks + 1
    /\ IF attempt /\ edit_ok
       THEN /\ status' = IF inside THEN Placeholder ELSE Shown("text", shown)
            /\ last_update' = now
            /\ n_edits' = n_edits + 1
            /\ last_edit' = now
       ELSE UNCHANGED <<status, last_update, n_edits, last_edit>>
    /\ UNCHANGED <<hide_thinking, now, sent, n_placeholders, n_final>>

(* line 582: the generator yields a content delta *)
OnDelta ==
    /\ d_pc = "streaming"
    /\ chunks < MaxChunks
    /\ \E chunk \in StreamChunks(chunks + 1), edit_ok \in BOOLEAN :
         LoopBody(chunk, edit_ok)
    /\ UNCHANGED d_pc
    /\ UNCHANGED notDisp

(* line 582: the generator yields its error text (bot.py 392/396/400); it  *)
(* is the last chunk                                                       *)
OnErrorText ==
    /\ d_pc = "streaming"
    /\ chunks < MaxChunks
    /\ \E edit_ok \in BOOLEAN : LoopBody(ERROR_TEXT, edit_ok)
    /\ d_pc' = "failed"
    /\ UNCHANGED notDisp

(* lines 605-619: the generator is exhausted *)
Finalize ==
    /\ d_pc \in {"streaming", "failed"}
    /\ LET final_response == remove_thinking_tags(response_text) IN
         IF response_text # <<>>
         THEN IF Strip(final_response) # <<>>
              THEN IF Len(final_response) > MESSAGE_LIMIT
                   THEN status' = Deleted /\ sent' = Split(final_response)
                   ELSE status' = Shown("text", final_response) /\ sent' = sent
              ELSE status' = OnlyThinking /\ sent' = sent
         ELSE status' = NoResponse /\ sent' = sent
    /\ d_pc' = "done"
    /\ n_final' = n_final + 1
    /\ UNCHANGED <<hide_thinking, response_text, last_update, now, chunks, n_edits,
                   last_edit, n_placeholders>>
    /\ UNCHANGED notDisp

(* variant: the handler only logs *)
OnExceptionSilent ==
    /\ d_pc = "streaming"
    /\ d_pc' = "crashed"
    /\ UNCHANGED <<hide_thinking, response_text, last_update, now, status, sent, chunks,
                   n_edits, last_edit, n_placeholders, n_final>>
    /\ UNCHANGED notDisp

(* lines 621-626: the generator raised (the IndexError of a rollback on an *)
(* emptied history)                                                        *)
OnException ==
    /\ d_pc = "streaming"
    /\ status' = ErrorNotice
    /\ d_pc' = "crashed"
    /\ n_final' = n_final + 1
    /\ UNCHANGED <<hide_thinking, response_text, last_update, now, sent, chunks,
                   n_edits, last_edit, n_placeholders>>
    /\ UNCHANGED notDisp

(***************************************************************************)
(* services/search.py: check_rate_limit                                    *)
(***************************************************************************)
Users == {1, 2}
Guilds == {1, 2}

(* variant: nothing is dropped *)
WithinUnpruned(hist, current_time, window) == hist

(* lines 80, 83, 93, 96: [ts for ts in history if current_time - ts < window] *)
WithinInclusive(hist, current_time, window) ==
    SelectSeq(hist, LAMBDA ts : current_time - ts <= window)
Within(hist, current_time, window) ==
    SelectSeq(hist, LAMBDA ts : current_time - ts < window)

NoCall == [user |-> 0, guild |-> 0, allowed |-> TRUE, message |-> "none"]
ReturnedAllowed(u, g, allowed, message) ==
    [user |-> u, guild |-> g, allowed |-> TRUE, message |-> message]
Returned(u, g, allowed, message) ==
    [user |-> u, guild |-> g, allowed |-> allowed, message |-> message]

(* lines 64-104, one call; no await inside, so it runs as one step *)
check_rate_limit(user_id, guild_id) ==
    LET current_time == rate_now
        user_history == Within(user_search_history[user_id], current_time, HOUR)
        recent_user == Within(user_history, current_time, MINUTE)
        guild_history == Within(guild_search_history[guild_id], current_time, HOUR)
        recent_guild == Within(guild_history, current_time, MINUTE)
    IN
    IF Len(recent_user) >= SEARCH_RATE_LIMIT_USER_PER_MINUTE
    THEN /\ user_search_history' = [user_search_history EXCEPT ![user_id] = user_history]
         /\ rate_result' = Returned(user_id, guild_id, FALSE, "user_minute")
         /\ UNCHANGED guild_search_history
    ELSE IF Len(user_history) >= SEARCH_RATE_LIMIT_USER_PER_HOUR
    THEN /\ user_search_history' = [user_search_history EXCEPT ![user_id] = user_history]
         /\ rate_result' = Returned(user_id, guild_id, FALSE, "user_hour")
         /\ UNCHANGED guild_search_history
    ELSE IF Len(recent_guild) >= SEARCH_RATE_LIMIT_GUILD_PER_MINUTE
    THEN /\ user_search_history' = [user_search_history EXCEPT ![user_id] = user_history]
         /\ guild_search_history' = [guild_search_history EXCEPT ![guild_id] = guild_history]
         /\ rate_result' = Returned(user_id, guild_id, FALSE, "guild_minute")
    ELSE /\ user_search_history' =
                [user_search_history EXCEPT ![user_id] = Append(user_history, current_time)]
         /\ guild_search_history' =
                [guild_search_history EXCEPT ![guild_id] = Append(guild_history, current_time)]
         /\ rate_result' = Returned(user_id, guild_id, TRUE, "")

CheckRateLimit ==
    \E user_id \in Users, guild_id \in Guilds :
        /\ check_rate_limit(user_id, guild_id)
        /\ rate_at' = rate_now
        /\ UNCHANGED rate_now
        /\ UNCHANGED notRate

(* wall-clock time passes between calls *)
RateTick ==
    /\ rate_now < MaxRateClock
    /\ rate_now' = rate_now + 1
    /\ UNCHANGED <<user_search_history, guild_search_history, rate_result, rate_at>>
    /\ UNCHANGED notRate

(***************************************************************************)
(* services/search.py: get_web_context                                     *)
(***************************************************************************)
None == 0
UserArgs == Users \cup {None}
GuildArgs == Guilds \cup {None}
Backends == {"auto", "google"}
(* line 161: ddgs.text returns results, returns nothing, or raises *)
SearchOutcomes == {"results", "nothing", "raise"}

(* line 199 *)
FallbackBackend == "duckduckgo"

(* line 190: the fallback is tried only for the automatic backend *)
TriesFallbackAlways(backend) == TRUE
TriesFallback(backend) == backend = "auto"

(* lines 122-154: entry, the rate limiter is consulted when both ids are   *)
(* given (line 147)                                                        *)
WebBegin ==
    /\ w_pc \in {"idle", "returned"}
    /\ \E user_id \in UserArgs, guild_id \in GuildArgs, backend \in Backends :
         /\ w_user' = user_id
         /\ w_guild' = guild_id
         /\ w_backend' = backend
         /\ IF user_id # None /\ guild_id # None
            THEN /\ check_rate_limit(user_id, guild_id)
                 /\ rate_at' = rate_now
                 /\ w_limiter' = IF rate_result'.allowed THEN "accepted" ELSE "rejected"
                 /\ w_pc' = IF rate_result'.allowed THEN "searching" ELSE "returned"
                 /\ w_result' = IF rate_result'.allowed THEN "none" ELSE "rate_message"
            ELSE /\ UNCHANGED <<user_search_history, guild_search_history, rate_result,
                                rate_at>>
                 /\ w_limiter' = "skipped"
                 /\ w_pc' = "searching"
                 /\ w_result' = "none"
    /\ w_calls' = <<>>
    /\ w_outcomes' = <<>>
    /\ UNCHANGED <<rate_now, w_raised>>
    /\ UNCHANGED notWeb

(* lines 156-186: the first search and the formatting of its results *)
FirstSearch ==
    /\ w_pc = "searching"
    /\ \E ended \in SearchOutcomes :
         /\ w_calls' = Append(w_calls, w_backend)
         /\ w_outcomes' = Append(w_outcomes, ended)
         /\ IF ended = "results"
            THEN w_pc' = "returned" /\ w_result' = "results"
            ELSE IF ended = "nothing"
            THEN w_pc' = "returned" /\ w_result' = "empty"
            ELSE IF TriesFallback(w_backend)
            THEN w_pc' = "fallback" /\ w_result' = w_result
            ELSE w_pc' = "returned" /\ w_result' = "empty"
    /\ UNCHANGED <<w_user, w_guild, w_backend, w_limiter, w_raised>>
    /\ UNCHANGED <<notWeb, rateVars>>

(* lines 188-219: the handler of the first failure *)
FallbackSearch ==
    /\ w_pc = "fallback"
    /\ \E ended \in SearchOutcomes :
         /\ w_calls' = Append(w_calls, FallbackBackend)
         /\ w_outcomes' = Append(w_outcomes, ended)
         /\ w_result' = IF ended = "results" THEN "results" ELSE "empty"
    /\ w_pc' = "returned"
    /\ UNCHANGED <<w_user, w_guild, w_backend, w_limiter, w_raised>>
    /\ UNCHANGED <<notWeb, rateVars>>

(* wall-clock time passes *)
WebTick ==
    /\ rate_now < MaxWebClock
    /\ rate_now' = rate_now + 1
    /\ UNCHANGED <<user_search_history, guild_search_history, rate_result, rate_at>>
    /\ UNCHANGED notRate

(***************************************************************************)
(* services/search.py: should_trigger_search                               *)
(***************************************************************************)
SEARCH_TRIGGERS == {<<"i", "n">>, <<"h", "i", "t">>}
NEGATIVE_SEARCH_TRIGGERS == {<<"t", "h", "i">>}

TextChars == {"i", "n", "t", "h", "I", " "}

(* str.lower() *)
str_lower(text) == [k \in 1..Len(text) |-> Lower(text[k])]

(* the Python test  phrase in text *)
IsIn(phrase, text) ==
    \E i \in 1..(Len(text) - Len(phrase) + 1) :
        SubSeq(text, i, i + Len(phrase) - 1) = phrase

(* line 233 *)
TooShortInclusive(message_text) == Len(message_text) <= MIN_MESSAGE_LENGTH_FOR_SEARCH
TooShort(message_text) == Len(message_text) < MIN_MESSAGE_LENGTH_FOR_SEARCH

(* lines 222-245 *)
should_trigger_search(message_text) ==
    IF TooShort(message_text) THEN FALSE
    ELSE LET message_lower == str_lower(message_text)
             has_search_trigger ==
                 \E trigger \in SEARCH_TRIGGERS : IsIn(trigger, message_lower)
             is_referencing_file ==
                 \E neg \in NEGATIVE_SEARCH_TRIGGERS : IsIn(neg, message_lower)
         IN  has_search_trigger /\ ~is_referencing_file

RECURSIVE TextsOfLen(_)
TextsOfLen(n) ==
    IF n = 0 THEN {<<>>}
    ELSE {Append(t, c) : t \in TextsOfLen(n - 1), c \in TextChars}
AnyText == UNION {TextsOfLen(n) : n \in 0..MaxTextLen}

ShouldTriggerRun ==
    /\ trig_pc = "start"
    /\ trig_out' = should_trigger_search(trig_text)
    /\ trig_pc' = "done"
    /\ UNCHANGED trig_text
    /\ UNCHANGED notTrig

(***************************************************************************)
(* remove_thinking_tags and is_inside_thinking_tags as functions of a text *)
(***************************************************************************)
(* the pieces a text is put together from: tags of both dialects in mixed  *)
(* case, the two halves of a tag, a self-closing tag                       *)
MIXED_OPEN == <<"<", "T", "h", "i", "n", "k", ">">>
BLOWER_CLOSE == <<"[", "/", "t", "h", "i", "n", "k", "]">>
TAG_HEAD == <<"<", "t", "h", "i">>
TAG_REST == <<"n", "k", ">">>
SELF_CLOSING == SELF_HEAD \o SELF_TAIL

WholeTags == {MIXED_OPEN, CLOSE_TAG, BOPEN_TAG, BLOWER_CLOSE}
AngleParts == {MIXED_OPEN, CLOSE_TAG, TAG_HEAD, TAG_REST, SELF_CLOSING}

(* a well-formed paired segment of either dialect, and plain text *)
ANGLE_SEGMENT == MIXED_OPEN \o <<"x">> \o CLOSE_TAG
BRACKET_SEGMENT == BOPEN_TAG \o <<"y", "\n", "y">> \o BLOWER_CLOSE
PlainParts == {<<"a", "\n">>, <<"\n", " ">>, <<"\n", "a">>}
SegmentParts == {ANGLE_SEGMENT, BRACKET_SEGMENT}

RECURSIVE PartsOfLen(_, _)
PartsOfLen(parts, n) ==
    IF n = 0 THEN {<<>>}
    ELSE {Append(t, c) : t \in PartsOfLen(parts, n - 1), c \in parts}

RECURSIVE Flatten(_)
Flatten(parts) == IF parts = <<>> THEN <<>> ELSE parts[1] \o Flatten(Tail(parts))

(* both functions applied to the text, the filter once more to its result *)
FilterRun ==
    /\ f_pc = "start"
    /\ LET text == Flatten(f_parts)
           once == remove_thinking_tags(text) IN
         /\ f_out' = once
         /\ f_twice' = remove_thinking_tags(once)
         /\ f_inside' = is_inside_thinking_tags(text)
    /\ f_pc' = "done"
    /\ UNCHANGED <<f_parts, dispVars>>
    /\ UNCHANGED notFilter

(***************************************************************************)
(* Several sessions: the dictionaries keyed by conversation_id             *)
(***************************************************************************)
Sessions == {1, 2}

(* variant: every key of the dictionary holds the same object *)
OnEverySession(dict, conversation_id, value) == [k \in DOMAIN dict |-> value]

(* dict[conversation_id] = value, or an operation on dict[conversation_id] *)
(* in place: the defaultdict factories of lines 107-119 make a new list    *)
(* and a new record for each key                                           *)
OnSession(dict, conversation_id, value) == [dict EXCEPT ![conversation_id] = value]

(* one exchange of the session at a time; ids are bounded *)
SessNew(s) ==
    /\ sess_pc[s] = "idle"
    /\ sess_next <= MaxExchanges
    /\ sess_msg' = [sess_msg EXCEPT ![s] = sess_next]
    /\ sess_next' = sess_next + 1
    /\ sess_last' = s

SessPreloads(s) ==
    Len(conversation_histories[s]) = 0 /\ ~context_loaded_of[s] /\ CONTEXT_MESSAGES > 0

(* lines 269, 285-308: no preload; append the user turn and trim *)
SessBegin(s) ==
    /\ SessNew(s)
    /\ ~SessPreloads(s)
    /\ conversation_histories' =
         OnSession(conversation_histories, s,
                   Trim(Append(conversation_histories[s], UserTurn(sess_next))))
    /\ sess_pc' = [sess_pc EXCEPT ![s] = "open"]
    /\ UNCHANGED <<context_loaded_of, channel_stats_of>>
    /\ UNCHANGED notSess

(* lines 269-270: await get_recent_context *)
SessBeginFetch(s) ==
    /\ SessNew(s)
    /\ SessPreloads(s)
    /\ sess_pc' = [sess_pc EXCEPT ![s] = "fetching"]
    /\ UNCHANGED <<conversation_histories, context_loaded_of, channel_stats_of>>
    /\ UNCHANGED notSess

(* lines 271-272, 285-308: extend with the context, raise the flag, append, trim *)
SessFetchReturn(s) ==
    /\ sess_pc[s] = "fetching"
    /\ \E n \in 0..CONTEXT_MESSAGES :
         conversation_histories' =
           OnSession(conversation_histories, s,
                     Trim(Append(conversation_histories[s] \o RecentContext(n),
                                 UserTurn(sess_msg[s]))))
    /\ context_loaded_of' = OnSession(context_loaded_of, s, TRUE)
    /\ sess_pc' = [sess_pc EXCEPT ![s] = "open"]
    /\ sess_last' = s
    /\ UNCHANGED <<channel_stats_of, sess_msg, sess_next>>
    /\ UNCHANGED notSess

(* lines 378-387: persist the answer and record the statistics *)
SessPersist(s) ==
    /\ sess_pc[s] = "open"
    /\ conversation_histories' =
         OnSession(conversation_histories, s,
                   Persist(conversation_histories[s], sess_msg[s], <<>>))
    /\ channel_stats_of' = OnSession(channel_stats_of, s, Recorded(channel_stats_of[s]))
    /\ sess_pc' = [sess_pc EXCEPT ![s] = "idle"]
    /\ sess_last' = s
    /\ UNCHANGED <<context_loaded_of, sess_msg, sess_next>>
    /\ UNCHANGED notSess

(* lines 388-400: roll back; pop() of an empty list raises and changes nothing *)
SessRollback(s) ==
    /\ sess_pc[s] = "open"
    /\ conversation_histories' =
         IF Len(conversation_histories[s]) > 0
         THEN OnSession(conversation_histories, s, Pop(conversation_histories[s]).rest)
         ELSE conversation_histories
    /\ sess_pc' = [sess_pc EXCEPT ![s] = "idle"]
    /\ sess_last' = s
    /\ UNCHANGED <<context_loaded_of, channel_stats_of, sess_msg, sess_next>>
    /\ UNCHANGED notSess

(* lines 415-423: reset_conversation, accepted *)
SessReset(s) ==
    /\ conversation_histories' = OnSession(conversation_histories, s, <<>>)
    /\ context_loaded_of' = OnSession(context_loaded_of, s, FALSE)
    /\ channel_stats_of' = OnSession(channel_stats_of, s, NoStats)
    /\ sess_last' = s
    /\ UNCHANGED <<sess_pc, sess_msg, sess_next>>
    /\ UNCHANGED notSess

(***************************************************************************)
(* ShutdownHandler (core/shutdown_handler.py)                              *)
(***************************************************************************)
Signals == {"SIGINT", "SIGTERM"}
SaveEnds == {"saved", "raised"}

(* bot.py 639: bot.run starts the event loop *)
StartLoop ==
    /\ sd_pc = "up"
    /\ ~loop_is_running
    /\ loop_is_running' = TRUE
    /\ UNCHANGED <<sd_pc, sd_signal, shutdown_initiated, stats_save, settings_save,
                   cleanup_task>>
    /\ UNCHANGED sessVars
    /\ UNCHANGED notShut

(* lines 99-111: with a loop running the cleanup is only made a task and   *)
(* line 114 follows at once; without one it is run to completion           *)
AfterScheduling(running) == IF running THEN "exiting" ELSE "cleanup"

(* lines 95-111 *)
handle_signal(sig) ==
    /\ sd_pc = "up"
    /\ sd_signal' = sig
    /\ cleanup_task' = IF loop_is_running THEN "pending" ELSE "none"
    /\ sd_pc' = AfterScheduling(loop_is_running)
    /\ UNCHANGED <<loop_is_running, shutdown_initiated, stats_save, settings_save>>
    /\ UNCHANGED sessVars
    /\ UNCHANGED notShut

(* lines 33-47: the flag, then save_stats() inside try/except Exception *)
CleanupSaveStats ==
    /\ sd_pc = "cleanup"
    /\ ~shutdown_initiated
    /\ shutdown_initiated' = TRUE
    /\ \E ended \in SaveEnds : stats_save' = ended
    /\ sd_pc' = "cleanup_settings"
    /\ UNCHANGED <<loop_is_running, sd_signal, settings_save, cleanup_task>>
    /\ UNCHANGED sessVars
    /\ UNCHANGED notShut

(* lines 49-57: save_guild_settings() inside try/except Exception *)
CleanupSaveSettings ==
    /\ sd_pc = "cleanup_settings"
    /\ \E ended \in SaveEnds : settings_save' = ended
    /\ sd_pc' = "cleanup_close"
    /\ UNCHANGED <<loop_is_running, sd_signal, shutdown_initiated, stats_save, cleanup_task>>
    /\ UNCHANGED sessVars
    /\ UNCHANGED notShut

(* lines 59-85: voice channels and the connection; then 112-114           *)
CleanupClose ==
    /\ sd_pc = "cleanup_close"
    /\ sd_pc' = "exiting"
    /\ UNCHANGED <<loop_is_running, sd_signal, shutdown_initiated, stats_save, settings_save,
                   cleanup_task>>
    /\ UNCHANGED sessVars
    /\ UNCHANGED notShut

(* line 114: sys.exit(0) raises SystemExit in the main thread; it unwinds  *)
(* the running loop, whose runner cancels the tasks that are pending: a    *)
(* task that has not started never runs its body                           *)
Exit ==
    /\ sd_pc = "exiting"
    /\ sd_pc' = "exited"
    /\ cleanup_task' = IF cleanup_task = "pending" THEN "cancelled" ELSE cleanup_task
    /\ loop_is_running' = FALSE
    /\ UNCHANGED <<sd_signal, shutdown_initiated, stats_save, settings_save>>
    /\ UNCHANGED sessVars
    /\ UNCHANGED notShut

(***************************************************************************)
(* query_lmstudio, lines 349-364: the stream of a 200 response             *)
(***************************************************************************)
(* A line is its prefix and the text after it.  The texts: the end marker, *)
(* text that is not JSON, JSON that is not an object, an object without    *)
(* 'choices', a chunk whose delta has the content "", chunks with content. *)
DONE == "[DONE]"
NOT_JSON == "{bad"
JSON_NULL == "null"
NO_CHOICES == "{}"
EMPTY_CONTENT == "empty"
Fragments == {"a", "b"}
Payloads == {DONE, NOT_JSON, JSON_NULL, NO_CHOICES, EMPTY_CONTENT} \cup Fragments

Line(prefix, payload) == [prefix |-> prefix, payload |-> payload]
Lines ==
    {Line("data: ", p) : p \in Payloads} \cup {Line("", "a"), Line("", DONE)}

(* json.loads(data_str) raises json.JSONDecodeError *)
RaisesJSONDecodeError(data_str) == data_str = NOT_JSON

(* 'choices' in data raises TypeError when data is not a container *)
RaisesTypeError(data_str) == data_str = JSON_NULL

(* lines 357-359: the content of the first choice's delta, "" when absent *)
ContentOf(data_str) == IF data_str \in Fragments THEN data_str ELSE ""

StreamErrorText == "Error"

RECURSIVE LinesOfLen(_)
LinesOfLen(n) ==
    IF n = 0 THEN {<<>>}
    ELSE {Append(ls, l) : ls \in LinesOfLen(n - 1), l \in Lines}

(* lines 349-364: one pass of the loop that neither breaks nor raises *)
ReadLine ==
    /\ stream_pc = "reading"
    /\ line_no <= Len(lines)
    /\ LET line == lines[line_no]
           data_str == line.payload
           content == IF line.prefix = "data: " /\ ~RaisesJSONDecodeError(data_str)
                      THEN ContentOf(data_str) ELSE "" IN
         /\ ~(line.prefix = "data: " /\ data_str = DONE)
         /\ ~(line.prefix = "data: " /\ RaisesTypeError(data_str))
         /\ stream_message' = IF content # "" THEN Append(stream_message, content)
                              ELSE stream_message
         /\ stream_yielded' = IF content # "" THEN Append(stream_yielded, content)
                              ELSE stream_yielded
    /\ line_no' = line_no + 1
    /\ UNCHANGED <<lines, stream_pc>>
    /\ UNCHANGED notStream

(* lines 353-354: break on the end marker *)
ReadDone ==
    /\ stream_pc = "reading"
    /\ line_no <= Len(lines)
    /\ lines[line_no] = Line("data: ", DONE)
    /\ stream_pc' = "ended"
    /\ UNCHANGED <<lines, line_no, stream_message, stream_yielded>>
    /\ UNCHANGED notStream

(* lines 356-357 raise an exception that is not json.JSONDecodeError: the  *)
(* handler of lines 397-400 yields the error text and the generator ends   *)
ReadRaises ==
    /\ stream_pc = "reading"
    /\ line_no <= Len(lines)
    /\ lines[line_no].prefix = "data: "
    /\ RaisesTypeError(lines[line_no].payload)
    /\ stream_yielded' = Append(stream_yielded, StreamErrorText)
    /\ stream_pc' = "failed"
    /\ UNCHANGED <<lines, line_no, stream_message>>
    /\ UNCHANGED notStream

(* line 349: the body is exhausted *)
EndOfBody ==
    /\ stream_pc = "reading"
    /\ line_no > Len(lines)
    /\ stream_pc' = "ended"
    /\ UNCHANGED <<lines, line_no, stream_message, stream_yielded>>
    /\ UNCHANGED notStream

(***************************************************************************)
(* services/search.py: check_search_cooldown, update_search_cooldown       *)
(***************************************************************************)
(* time.time() is a float; the model counts ticks, TicksPerSecond to the   *)
(* second.  The clock starts far from zero, as time.time() does.           *)
COOLDOWN_TICKS == SEARCH_COOLDOWN * TicksPerSecond
StartTime == COOLDOWN_TICKS + 1
NoCooldown == 0 - 1
NoCheck == 0 - 2

(* line 265: int(SEARCH_COOLDOWN - time_since_search), in whole seconds *)
Remaining(time_since_search) == (COOLDOWN_TICKS - time_since_search) \div TicksPerSecond

(* lines 248-268 *)
check_search_cooldown(guild_id) ==
    IF guild_id = None THEN NoCooldown
    ELSE LET last_search == search_cooldowns[guild_id]
             time_since_search == cd_now - last_search IN
         IF time_since_search < COOLDOWN_TICKS
         THEN Remaining(time_since_search)
         ELSE NoCooldown

CheckSearchCooldown ==
    \E guild_id \in GuildArgs :
        /\ cd_result' = check_search_cooldown(guild_id)
        /\ cd_guild' = guild_id
        /\ cd_at' = cd_now
        /\ UNCHANGED <<search_cooldowns, cd_now>>
        /\ UNCHANGED notCool

(* lines 271-280 *)
update_search_cooldown ==
    \E guild_id \in GuildArgs :
        /\ search_cooldowns' = IF guild_id # None
                               THEN [search_cooldowns EXCEPT ![guild_id] = cd_now]
                               ELSE search_cooldowns
        /\ UNCHANGED <<cd_now, cd_guild, cd_result, cd_at>>
        /\ UNCHANGED notCool

(* time passes *)
CooldownTick ==
    /\ cd_now < StartTime + MaxCooldownTicks
    /\ cd_now' = cd_now + 1
    /\ UNCHANGED <<search_cooldowns, cd_guild, cd_result, cd_at>>
    /\ UNCHANGED notCool

(***************************************************************************)
(* commands/config_cmd.py 416-446: ConfigView.clear_last                   *)
(***************************************************************************)
(* variant: one turn is removed *)
RECURSIVE PopOne(_, _)
PopOne(hist, removed) ==
    IF hist # <<>> /\ removed < 1
    THEN PopOne(ButLast(hist), removed + 1)
    ELSE hist

(* lines 432-438: the loop, from `removed` turns already popped *)
RECURSIVE PopLoop(_, _)
PopLoop(hist, removed) ==
    IF hist # <<>> /\ removed < 2
    THEN IF Last(hist).role \in {"assistant", "user"}
         THEN PopLoop(ButLast(hist), removed + 1)
         ELSE hist
    ELSE hist

(* lines 418-444: the button is pressed; has_permission is the result of   *)
(* check_admin_permission                                                  *)
clear_last ==
    /\ \E has_permission \in BOOLEAN :
         IF ~has_permission THEN cl_history' = cl_history /\ cl_pc' = "refused"
         ELSE IF cl_history = <<>> THEN cl_history' = cl_history /\ cl_pc' = "nothing"
         ELSE cl_history' = PopLoop(cl_history, 0) /\ cl_pc' = "cleared"
    /\ cl_before' = cl_history
    /\ UNCHANGED notClear

(* the histories the button is pressed on *)
RECURSIVE ClearHistories(_)
ClearHistories(n) ==
    IF n = 0 THEN {<<>>}
    ELSE {Append(h, t) : h \in ClearHistories(n - 1),
                         t \in {UserTurn(n), AssistantTurn(n, <<>>), Turn("system", n, <<>>)}}

(***************************************************************************)
(* commands/config_cmd.py 27-85: validate_system_prompt.  A prompt is a    *)
(* sequence of words, a pattern a sequence of words that re.search finds   *)
(* anywhere in it; time is counted in ticks, HOUR to the hour.             *)
(***************************************************************************)
PROMPT_INJECTION_PATTERNS ==
    {<<"system", "override">>, <<"admin", "mode">>, <<"jailbreak">>}

Prompts ==
    {<<"be", "brief">>, <<"system", "admin">>, <<"enter", "admin", "mode">>,
     <<"jailbreak">>}

(* lines 58-64: some pattern is found in the prompt *)
Suspicious(prompt) ==
    \E pattern \in PROMPT_INJECTION_PATTERNS :
        \E i \in 1..Len(prompt) :
            /\ i + Len(pattern) - 1 <= Len(prompt)
            /\ SubSeq(prompt, i, i + Len(pattern) - 1) = pattern

(* variant: one change more is let through *)
QuotaExceeded(changes) == Len(changes) > MAX_PROMPT_CHANGES_PER_HOUR

(* line 79 *)
QuotaReached(changes) == Len(changes) >= MAX_PROMPT_CHANGES_PER_HOUR

NoPromptCall == [guild |-> 0, valid |-> TRUE, why |-> "none"]
PromptCall(guild_id, valid, why) == [guild |-> guild_id, valid |-> valid, why |-> why]

(* lines 47-85; a guild that is not in the dictionary has the empty list   *)
(* (68-69)                                                                 *)
validate_system_prompt(prompt, guild_id) ==
    IF Suspicious(prompt)
    THEN /\ pr_call' = PromptCall(guild_id, FALSE, "pattern")
         /\ UNCHANGED <<prompt_change_timestamps, accepted_at>>
    ELSE LET current_time == pr_now
             recent == Within(prompt_change_timestamps[guild_id], current_time, HOUR) IN
         IF QuotaReached(recent)
         THEN /\ prompt_change_timestamps' =
                     [prompt_change_timestamps EXCEPT ![guild_id] = recent]
              /\ pr_call' = PromptCall(guild_id, FALSE, "rate")
              /\ UNCHANGED accepted_at
         ELSE /\ prompt_change_timestamps' =
                     [prompt_change_timestamps EXCEPT
                         ![guild_id] = Append(recent, current_time)]
              /\ accepted_at' =
                     [accepted_at EXCEPT ![guild_id] = Append(@, current_time)]
              /\ pr_call' = PromptCall(guild_id, TRUE, "")

(* SystemPromptModal.on_submit, lines 112-113 *)
ValidatePrompt ==
    /\ \E prompt \in Prompts, guild_id \in Guilds :
          validate_system_prompt(prompt, guild_id)
    /\ UNCHANGED pr_now
    /\ UNCHANGED notPrompt

(* time passes *)
PromptTick ==
    /\ pr_now < MaxPromptClock
    /\ pr_now' = pr_now + 1
    /\ UNCHANGED <<prompt_change_timestamps, pr_call, accepted_at>>
    /\ UNCHANGED notPrompt

(***************************************************************************)
(* core/shutdown_handler.py 31-85: cleanup, called several times.  A call  *)
(* runs without suspension up to an await; the awaits are the gather of    *)
(* the voice disconnects (line 70) and bot.close() (line 79).              *)
(***************************************************************************)
Callers == 1..MaxCalls

(* lines 39-83: the four try blocks, in the order of the text *)
STEPS == <<"save_stats", "save_guild_settings", "disconnect_voice", "close">>

(* lines 59-74: no connected voice client, an exception before the gather, *)
(* or the call suspends in the gather                                      *)
VoiceEnds == {"none_connected", "raises", "awaits"}

(* variant: the flag is not raised *)
NotInitiated == FALSE

(* line 36 *)
InitiatedOnEntry == TRUE

(* variant: one try block around the steps, the first exception ends them *)
AttemptedUntilRaise(stats_raises, settings_raises, voice) ==
    IF stats_raises THEN SubSeq(STEPS, 1, 1)
    ELSE IF settings_raises THEN SubSeq(STEPS, 1, 2)
    ELSE IF voice = "raises" \/ voice = "awaits" THEN SubSeq(STEPS, 1, 3)
    ELSE STEPS

(* lines 39-79: the steps a call begins before its first suspension; each  *)
(* try block catches Exception, so a step that raises is followed by the   *)
(* next                                                                    *)
AttemptedOnEntry(stats_raises, settings_raises, voice) ==
    IF voice = "awaits" THEN SubSeq(STEPS, 1, 3) ELSE STEPS

By(call, steps) == [i \in 1..Len(steps) |-> [step |-> steps[i], call |-> call]]

(* lines 33-79, up to the first await *)
CleanupEnter(c) ==
    /\ cleanup_calls[c] = "idle"
    /\ IF shutdown_initiated
       THEN /\ cleanup_calls' = [cleanup_calls EXCEPT ![c] = "returned"]
            /\ UNCHANGED <<shutdown_initiated, attempts, raised>>
       ELSE /\ shutdown_initiated' = InitiatedOnEntry
            /\ \E stats_raises \in BOOLEAN, settings_raises \in BOOLEAN, voice \in VoiceEnds :
                 /\ attempts' = attempts \o
                        By(c, AttemptedOnEntry(stats_raises, settings_raises, voice))
                 /\ raised' = raised
                        \cup (IF stats_raises THEN {STEPS[1]} ELSE {})
                        \cup (IF settings_raises THEN {STEPS[2]} ELSE {})
                        \cup (IF voice = "raises" THEN {STEPS[3]} ELSE {})
                 /\ cleanup_calls' =
                        [cleanup_calls EXCEPT ![c] = IF voice = "awaits" THEN "voice" ELSE "close"]
    /\ UNCHANGED <<sd_pc, loop_is_running, sd_signal, stats_save, settings_save, cleanup_task>>
    /\ UNCHANGED notCalls

(* lines 70-79: the gather returns (return_exceptions=True: the failures   *)
(* of the disconnects are results), bot.close() is awaited                 *)
CleanupVoiceDone(c) ==
    /\ cleanup_calls[c] = "voice"
    /\ attempts' = attempts \o By(c, SubSeq(STEPS, 4, 4))
    /\ cleanup_calls' = [cleanup_calls EXCEPT ![c] = "close"]
    /\ UNCHANGED raised
    /\ UNCHANGED shutVars
    /\ UNCHANGED notCalls

(* lines 79-85: bot.close() returns or raises *)
CleanupCloseDone(c) ==
    /\ cleanup_calls[c] = "close"
    /\ \E close_raises \in BOOLEAN :
         raised' = raised \cup (IF close_raises THEN {STEPS[4]} ELSE {})
    /\ cleanup_calls' = [cleanup_calls EXCEPT ![c] = "returned"]
    /\ UNCHANGED attempts
    /\ UNCHANGED shutVars
    /\ UNCHANGED notCalls

(***************************************************************************)
(* Initial states and specifications                                      *)
(***************************************************************************)
ClearIdle ==
    /\ cl_history = <<>>
    /\ cl_before = <<>>
    /\ cl_pc = "off"

PromptInit ==
    /\ prompt_change_timestamps = [g \in Guilds |-> <<>>]
    /\ pr_now = 0
    /\ pr_call = NoPromptCall
    /\ accepted_at = [g \in Guilds |-> <<>>]

CallsInit ==
    /\ cleanup_calls = [c \in Callers |-> "idle"]
    /\ attempts = <<>>
    /\ raised = {}

ChatInit ==
    /\ history = <<>>
    /\ context_loaded = FALSE
    /\ pc = [t \in Tasks |-> "idle"]
    /\ msg = [t \in Tasks |-> 0]
    /\ assistant_message = [t \in Tasks |-> <<>>]
    /\ api_messages = [t \in Tasks |-> <<>>]
    /\ yielded = [t \in Tasks |-> <<>>]
    /\ outcome = [t \in Tasks |-> "none"]
    /\ popped = [t \in Tasks |-> NoTurn]
    /\ alone = [t \in Tasks |-> TRUE]
    /\ raced = [t \in Tasks |-> FALSE]
    /\ next_msg = 1
    /\ kept = [t \in Tasks |-> TRUE]
    /\ plain = TRUE
    /\ fetches = 0
    /\ channel_stats = NoStats
    /\ completed = 0
    /\ dropped = <<>>

NormIdle ==
    /\ norm_in = <<>>
    /\ norm_out = <<>>
    /\ norm_pc = "off"
    /\ norm_stored = <<>>

DispIdle ==
    /\ hide_thinking = TRUE
    /\ d_pc = "off"
    /\ response_text = <<>>
    /\ last_update = 0
    /\ now = 0
    /\ status = NoMessage
    /\ sent = <<>>
    /\ chunks = 0
    /\ n_edits = 0
    /\ n_placeholders = 0
    /\ n_final = 0
    /\ last_edit = 0 - 1

RateInit ==
    /\ user_search_history = [u \in Users |-> <<>>]
    /\ guild_search_history = [g \in Guilds |-> <<>>]
    /\ rate_now = 0
    /\ rate_result = NoCall
    /\ rate_at = 0 - 1

WebInit ==
    /\ w_pc = "idle"
    /\ w_user = None
    /\ w_guild = None
    /\ w_backend = "auto"
    /\ w_limiter = "none"
    /\ w_calls = <<>>
    /\ w_outcomes = <<>>
    /\ w_result = "none"
    /\ w_raised = FALSE

TrigIdle ==
    /\ trig_text = <<>>
    /\ trig_out = FALSE
    /\ trig_pc = "off"

CoolInit ==
    /\ search_cooldowns = [g \in Guilds |-> 0]
    /\ cd_now = StartTime
    /\ cd_guild = None
    /\ cd_result = NoCheck
    /\ cd_at = 0

RestInit == CoolInit /\ ClearIdle /\ PromptInit /\ CallsInit

StreamIdle ==
    /\ lines = <<>>
    /\ line_no = 1
    /\ stream_message = <<>>
    /\ stream_yielded = <<>>
    /\ stream_pc = "off"

ShutInit ==
    /\ sd_pc = "up"
    /\ loop_is_running = FALSE
    /\ sd_signal = "none"
    /\ shutdown_initiated = FALSE
    /\ stats_save = "none"
    /\ settings_save = "none"
    /\ cleanup_task = "none"

SessInit ==
    /\ conversation_histories = [s \in Sessions |-> <<>>]
    /\ context_loaded_of = [s \in Sessions |-> FALSE]
    /\ channel_stats_of = [s \in Sessions |-> NoStats]
    /\ sess_pc = [s \in Sessions |-> "idle"]
    /\ sess_msg = [s \in Sessions |-> 0]
    /\ sess_next = 1
    /\ sess_last = 0

FilterIdle ==
    /\ f_parts = <<>>
    /\ f_out = <<>>
    /\ f_twice = <<>>
    /\ f_inside = FALSE
    /\ f_pc = "off"

Init ==
    ChatInit /\ NormIdle /\ DispIdle /\ RateInit /\ WebInit /\ TrigIdle /\ FilterIdle /\ SessInit /\ ShutInit /\ StreamIdle /\ RestInit

Next ==
    \/ \E t \in Tasks : Begin(t)
    \/ \E t \in Tasks : BeginFetch(t)
    \/ \E t \in Tasks : FetchReturn(t)
    \/ \E t \in Tasks : Respond200(t)
    \/ \E t \in Tasks : RespondError(t)
    \/ \E t \in Tasks : TransportError(t)
    \/ \E t \in Tasks : StreamDelta(t)
    \/ \E t \in Tasks : StreamEnd(t)
    \/ \E t \in Tasks : Cancel(t)
    \/ Reset

Spec == Init /\ [][Next]_vars

NormInit ==
    /\ norm_in \in AnyHistory
    /\ norm_out = <<>>
    /\ norm_pc = "start"
    /\ norm_stored = norm_in
    /\ ChatInit /\ DispIdle /\ RateInit /\ WebInit /\ TrigIdle /\ FilterIdle /\ SessInit /\ ShutInit /\ StreamIdle /\ RestInit

NormNext == NormalizeRun

SpecNormalize == NormInit /\ [][NormNext]_vars

DispInit ==
    /\ hide_thinking \in BOOLEAN
    /\ d_pc = "start"
    /\ response_text = <<>>
    /\ last_update = 0
    /\ now = 0
    /\ status = NoMessage
    /\ sent = <<>>
    /\ chunks = 0
    /\ n_edits = 0
    /\ n_placeholders = 0
    /\ n_final = 0
    /\ last_edit = 0 - 1
    /\ ChatInit /\ NormIdle /\ RateInit /\ WebInit /\ TrigIdle /\ FilterIdle /\ SessInit /\ ShutInit /\ StreamIdle /\ RestInit

DispNext ==
    \/ SendPlaceholder
    \/ Tick
    \/ OnDelta
    \/ OnErrorText
    \/ Finalize
    \/ OnException

SpecDisplay == DispInit /\ [][DispNext]_vars

RateNext ==
    \/ CheckRateLimit
    \/ RateTick

SpecRate == Init /\ [][RateNext]_vars

WebNext ==
    \/ WebBegin
    \/ FirstSearch
    \/ FallbackSearch
    \/ WebTick

SpecWeb == Init /\ [][WebNext]_vars

TrigInit ==
    /\ trig_text \in AnyText
    /\ trig_out = FALSE
    /\ trig_pc = "start"
    /\ ChatInit /\ NormIdle /\ DispIdle /\ RateInit /\ WebInit /\ FilterIdle /\ SessInit /\ ShutInit /\ StreamIdle /\ RestInit

TrigNext == ShouldTriggerRun

SpecTrigger == TrigInit /\ [][TrigNext]_vars

(* the display is off; HIDE_THINKING is either setting *)
FilterStart ==
    /\ hide_thinking \in BOOLEAN
    /\ d_pc = "off"
    /\ response_text = <<>>
    /\ last_update = 0
    /\ now = 0
    /\ status = NoMessage
    /\ sent = <<>>
    /\ chunks = 0
    /\ n_edits = 0
    /\ n_placeholders = 0
    /\ n_final = 0
    /\ last_edit = 0 - 1
    /\ f_out = <<>>
    /\ f_twice = <<>>
    /\ f_inside = FALSE
    /\ f_pc = "start"
    /\ ChatInit /\ NormIdle /\ RateInit /\ WebInit /\ TrigIdle /\ SessInit /\ ShutInit /\ StreamIdle /\ RestInit

FilterInit ==
    /\ f_parts \in UNION {PartsOfLen(WholeTags, n) \cup PartsOfLen(AngleParts, n) :
                              n \in 0..MaxParts}
    /\ FilterStart

FilterNext == FilterRun

SpecFilter == FilterInit /\ [][FilterNext]_vars

SessNext ==
    \/ \E s \in Sessions : SessBegin(s)
    \/ \E s \in Sessions : SessBeginFetch(s)
    \/ \E s \in Sessions : SessFetchReturn(s)
    \/ \E s \in Sessions : SessPersist(s)
    \/ \E s \in Sessions : SessRollback(s)
    \/ \E s \in Sessions : SessReset(s)

SpecSessions == Init /\ [][SessNext]_vars

(* the sessions are served while the loop runs and no signal has come *)
Serving ==
    /\ sd_pc = "up"
    /\ loop_is_running
    /\ SessNext
    /\ UNCHANGED shutVars

ShutdownNext ==
    \/ StartLoop
    \/ Serving
    \/ \E sig \in Signals : handle_signal(sig)
    \/ CleanupSaveStats
    \/ CleanupSaveSettings
    \/ CleanupClose
    \/ Exit

SpecShutdown == Init /\ [][ShutdownNext]_vars

StreamInit ==
    /\ lines \in UNION {LinesOfLen(n) : n \in 0..MaxLines}
    /\ line_no = 1
    /\ stream_message = <<>>
    /\ stream_yielded = <<>>
    /\ stream_pc = "reading"
    /\ ChatInit /\ NormIdle /\ DispIdle /\ RateInit /\ WebInit /\ TrigIdle /\ FilterIdle
    /\ SessInit /\ ShutInit /\ RestInit

StreamNext ==
    \/ ReadLine
    \/ ReadDone
    \/ ReadRaises
    \/ EndOfBody

SpecStream == StreamInit /\ [][StreamNext]_vars

CoolNext ==
    \/ CheckSearchCooldown
    \/ update_search_cooldown
    \/ CooldownTick

SpecCooldown == Init /\ [][CoolNext]_vars

ClearInit ==
    /\ cl_history \in UNION {ClearHistories(n) : n \in 0..MaxClearLen}
    /\ cl_before = cl_history
    /\ cl_pc = "shown"
    /\ ChatInit /\ NormIdle /\ DispIdle /\ RateInit /\ WebInit /\ TrigIdle /\ FilterIdle
    /\ SessInit /\ ShutInit /\ StreamIdle /\ CoolInit /\ PromptInit /\ CallsInit

ClearNext == clear_last

PromptNext ==
    \/ ValidatePrompt
    \/ PromptTick

SpecPrompt == Init /\ [][PromptNext]_vars

CallsNext ==
    \/ \E c \in Callers : CleanupEnter(c)
    \/ \E c \in Callers : CleanupVoiceDone(c)
    \/ \E c \in Callers : CleanupCloseDone(c)

SpecCleanup == Init /\ [][CallsNext]_vars

SpecClear == ClearInit /\ [][ClearNext]_vars

SegmentsInit ==
    /\ f_parts \in UNION {PartsOfLen(PlainParts \cup SegmentParts, n) : n \in 0..MaxItems}
    /\ FilterStart

SpecSegments == SegmentsInit /\ [][FilterNext]_vars

(***************************************************************************)
(* Properties                                                              *)
(***************************************************************************)
Failures == {"status", "transport", "unexpected", "raised"}
Ended(t) == pc[t] = "idle" /\ outcome[t] # "none"
HasReply(h, id) == \E i \in 1..Len(h) : h[i].role = "assistant" /\ h[i].id = id
Roles(s) == [i \in 1..Len(s) |-> s[i].role]

(* C1: after any sequence of exchanges run one at a time, each ending in   *)
(* a persisted assistant turn or a rollback, the stored history holds at   *)
(* most 2 x MAX_HISTORY turns.                                             *)
C1_BoundedHistory == plain => Len(history) <= 2 * MAX_HISTORY

(* C2: for every history of user and assistant turns, the list built by    *)
(* the normalization pass has no two consecutive entries with the same     *)
(* role and does not end with an assistant entry.                          *)
C2_Alternation ==
    norm_pc = "built" =>
        /\ \A i \in 1..(Len(norm_out) - 1) : norm_out[i].role # norm_out[i + 1].role
        /\ norm_out # <<>> => Last(norm_out).role # "assistant"

C2_Witness ==
    /\ norm_pc = "built"
    /\ Roles(norm_in) = <<"user", "user", "assistant", "assistant">>
    /\ norm_out = <<norm_in[1], Understood, norm_in[2]>>

(* C3: a request sent by an exchange that is the only one in flight        *)
(* carries a non-empty message list whose last entry is the user turn      *)
(* that exchange appended.                                                 *)
C3_LastIsOwnUserTurn ==
    \A t \in Tasks :
        (pc[t] = "posted" /\ alone[t]) =>
            /\ api_messages[t] # <<>>
            /\ Last(api_messages[t]) = UserTurn(msg[t])

(* the request of a second exchange: context was preloaded, the append     *)
(* overflowed and the oldest context turn was trimmed away                 *)
C3_Witness ==
    \E t \in Tasks :
        /\ pc[t] = "posted" /\ alone[t] /\ context_loaded
        /\ Len(history) = 2 * MAX_HISTORY
        /\ history[1] = UserTurn(0 - 2)
        /\ Len(api_messages[t]) > Len(history)

(* C4: when an exchange that ran alone ends on a failure path, the turn    *)
(* its rollback removed is the user turn it appended (nothing, when a      *)
(* reset had emptied the history), no assistant turn of it was appended,   *)
(* and the history does not contain its user turn.                         *)
C4_RollbackRemovesOwnTurn ==
    \A t \in Tasks :
        (Ended(t) /\ outcome[t] \in Failures /\ alone[t]) =>
            /\ ~Contains(history, UserTurn(msg[t]))
            /\ ~HasReply(history, msg[t])
            /\ IF outcome[t] = "raised"
               THEN popped[t] = NoTurn /\ ~kept[t]
               ELSE popped[t] = UserTurn(msg[t])

(* a transport failure after some deltas, on a history that keeps turns *)
C4_Witness ==
    \E t \in Tasks :
        /\ Ended(t) /\ outcome[t] = "transport" /\ alone[t] /\ kept[t]
        /\ yielded[t] # <<>>
        /\ popped[t] = UserTurn(msg[t])
        /\ Len(history) = 2 * MAX_HISTORY - 1

(* C5: two exchanges of the session that both appended their user turn     *)
(* before either finished: once both have ended (persisted or rolled       *)
(* back, no reset meanwhile) the history holds the user turn of an         *)
(* exchange iff that exchange succeeded, and every persisted assistant     *)
(* turn has its own user turn in the history.                              *)
C5_InterleavedRollback ==
    (\A t \in Tasks : Ended(t) /\ raced[t] /\ kept[t]
                        /\ outcome[t] \in {"ok", "status", "transport", "unexpected"}) =>
        \A t \in Tasks :
            /\ Contains(history, UserTurn(msg[t])) <=> outcome[t] = "ok"
            /\ HasReply(history, msg[t]) => Contains(history, UserTurn(msg[t]))

(* C6: when a stream completes normally exactly one assistant turn is      *)
(* appended at the tail of the history, and its content is the             *)
(* concatenation, in order, of every delta the generator yielded.          *)
C6_PersistRawAnswer ==
    [][\A t \in Tasks :
          (pc[t] = "streaming" /\ pc'[t] = "idle" /\ outcome'[t] = "ok") =>
              history' = Append(history, AssistantTurn(msg[t], yielded[t]))]_vars

C6_Witness ==
    \E t \in Tasks :
        /\ Ended(t) /\ outcome[t] = "ok"
        /\ Len(yielded[t]) >= 2
        /\ history # <<>>
        /\ Last(history) = AssistantTurn(msg[t], yielded[t])

(* the characters of a raw text that lie after a reasoning open tag and    *)
(* before the close tag of its dialect (or the end of the text)            *)
RECURSIVE ReasoningFrom(_, _, _, _)
ReasoningFrom(text, i, close, acc) ==
    IF i > Len(text) THEN acc
    ELSE IF close = <<>>
         THEN IF MatchAt(text, i, OPEN_TAG)
              THEN ReasoningFrom(text, i + Len(OPEN_TAG), CLOSE_TAG, acc)
              ELSE IF MatchAt(text, i, BOPEN_TAG)
                   THEN ReasoningFrom(text, i + Len(BOPEN_TAG), BCLOSE_TAG, acc)
                   ELSE ReasoningFrom(text, i + 1, close, acc)
         ELSE IF MatchAt(text, i, close)
              THEN ReasoningFrom(text, i + Len(close), <<>>, acc)
              ELSE ReasoningFrom(text, i + 1, close, acc \cup {text[i]})

LetterSet == {Letters[k] : k \in 1..Len(Letters)}
ReasoningLetters(raw) == ReasoningFrom(raw, 1, <<>>, {}) \cap LetterSet

(* every text now on the display *)
OnDisplay ==
    (IF status.kind = "text" THEN {status.text} ELSE {}) \cup {sent[k] : k \in 1..Len(sent)}

RECURSIVE Concat(_)
Concat(ss) == IF ss = <<>> THEN <<>> ELSE ss[1] \o Concat(Tail(ss))

(* C7: with filtering enabled, no text pushed to the display (intermediate *)
(* edit or final message) contains text that the raw stream placed after a *)
(* reasoning open tag and before its close tag, whether the segment is     *)
(* complete, still open at the push, or still open when the stream ends.   *)
C7_NoReasoningShown ==
    hide_thinking =>
        \A text \in OnDisplay :
            \A i \in 1..Len(text) : text[i] \notin ReasoningLetters(response_text)

(* C8: an intermediate edit is made only on a chunk that arrives at least  *)
(* the update interval after the chunk of the previous edit (and after     *)
(* last_update); a chunk arriving sooner after last_update edits nothing.  *)
C8_Throttle ==
    [][/\ n_edits' # n_edits =>
             /\ now - last_update >= UPDATE_INTERVAL
             /\ last_edit >= 0 => now - last_edit >= UPDATE_INTERVAL
       /\ (chunks' = chunks + 1 /\ now - last_update < UPDATE_INTERVAL) =>
             /\ n_edits' = n_edits
             /\ status' = status]_vars

(* two edits, and a chunk in between or after that edited nothing *)
C8_Witness ==
    /\ d_pc = "streaming"
    /\ n_edits = 2
    /\ chunks = 3
    /\ status.kind = "text"

(* C9 as claimed: a final filtered text of more than MESSAGE_LIMIT         *)
(* characters is sent as successive messages of at most MESSAGE_LIMIT      *)
(* characters whose concatenation is that text; one of 1..MESSAGE_LIMIT    *)
(* characters is put on the status message by an edit in place.            *)
C9_SplitOrEditInPlace ==
    (d_pc = "done" /\ response_text # <<>>) =>
        LET final == remove_thinking_tags(response_text) IN
        /\ Len(final) > MESSAGE_LIMIT =>
              /\ status = Deleted
              /\ \A k \in 1..Len(sent) : Len(sent[k]) \in 1..MESSAGE_LIMIT
              /\ Concat(sent) = final
        /\ Len(final) \in 1..MESSAGE_LIMIT =>
              /\ status = Shown("text", final)
              /\ sent = <<>>

(* C9, amended: the same for a final filtered text that is not made of     *)
(* white space only; a final text of white space only (filtering disabled) *)
(* is replaced by the only-reasoning notice.                               *)
C9_SplitOrEditInPlaceUnlessBlank ==
    (d_pc = "done" /\ response_text # <<>>) =>
        LET final == remove_thinking_tags(response_text) IN
        IF Strip(final) = <<>>
        THEN status = OnlyThinking /\ sent = <<>>
        ELSE /\ Len(final) > MESSAGE_LIMIT =>
                  /\ status = Deleted
                  /\ \A k \in 1..Len(sent) : Len(sent[k]) \in 1..MESSAGE_LIMIT
                  /\ Concat(sent) = final
             /\ Len(final) \in 1..MESSAGE_LIMIT =>
                  /\ status = Shown("text", final)
                  /\ sent = <<>>

(* a final text split into a full message and a shorter last one *)
C9_Witness ==
    /\ d_pc = "done"
    /\ hide_thinking
    /\ Len(sent) = 2
    /\ Len(sent[1]) = MESSAGE_LIMIT
    /\ Len(sent[2]) < MESSAGE_LIMIT
    /\ Concat(sent) = remove_thinking_tags(response_text)

(* C10: no user and no guild ever has more accepted searches recorded     *)
(* within one hour than its per-hour ceiling, check_rate_limit rejecting   *)
(* a request whenever the user's or the guild's count of the last minute   *)
(* or of the last hour has reached its ceiling.                            *)
C10_HourlyCeilings ==
    /\ \A u \in Users :
          Len(Within(user_search_history[u], rate_now, HOUR))
              <= SEARCH_RATE_LIMIT_USER_PER_HOUR
    /\ \A g \in Guilds :
          Len(Within(guild_search_history[g], rate_now, HOUR))
              <= SEARCH_RATE_LIMIT_GUILD_PER_HOUR

(* a step that is one call of check_rate_limit *)
RateCall == rate_at' = rate_now /\ rate_now' = rate_now

(* the user has M timestamps on record and the oldest of the latest M is   *)
(* less than a minute old                                                  *)
MinuteFull(u) ==
    LET hist == user_search_history[u]
        M == SEARCH_RATE_LIMIT_USER_PER_MINUTE
    IN  /\ Len(hist) >= M
        /\ rate_now - hist[Len(hist) - M + 1] < MINUTE

RECURSIVE CountNewer(_, _)
CountNewer(hist, since) ==
    IF hist = <<>> THEN 0
    ELSE (IF hist[1] > since THEN 1 ELSE 0) + CountNewer(Tail(hist), since)

(* none of the other three ceilings is reached *)
OtherCeilingsFree(u, g) ==
    /\ CountNewer(user_search_history[u], rate_now - HOUR) < SEARCH_RATE_LIMIT_USER_PER_HOUR
    /\ CountNewer(guild_search_history[g], rate_now - MINUTE) < SEARCH_RATE_LIMIT_GUILD_PER_MINUTE
    /\ CountNewer(guild_search_history[g], rate_now - HOUR) < SEARCH_RATE_LIMIT_GUILD_PER_HOUR

(* C11: while a user has M accepted searches less than a minute old every  *)
(* attempt of that user is rejected; once the oldest of them is a minute   *)
(* old the attempt is accepted, the hourly and guild ceilings not being    *)
(* reached.                                                                *)
C11_MinuteWindow ==
    [][RateCall =>
         LET u == rate_result'.user
             g == rate_result'.guild
         IN  /\ MinuteFull(u) => ~rate_result'.allowed
             /\ (~MinuteFull(u) /\ OtherCeilingsFree(u, g)) => rate_result'.allowed]_vars

(* a user's second search is accepted exactly one minute after the first   *)
C11_Witness ==
    /\ rate_result.allowed
    /\ rate_at = MINUTE
    /\ user_search_history[rate_result.user] = <<0, MINUTE>>

(* the timestamps of a window that are less than an hour old *)
RECURSIVE Newer(_, _)
Newer(hist, since) ==
    IF hist = <<>> THEN <<>>
    ELSE (IF hist[1] > since THEN <<hist[1]>> ELSE <<>>) \o Newer(Tail(hist), since)

(* C12: a call that accepts appends the current time to the window of its  *)
(* user and to the window of its guild; a call that rejects adds no        *)
(* timestamp to any window (it only drops timestamps an hour old).         *)
C12_RecordsIffAccepted ==
    [][RateCall =>
         LET u == rate_result'.user
             g == rate_result'.guild
             since == rate_now - HOUR
         IN  IF rate_result'.allowed
             THEN /\ user_search_history'[u] =
                        Append(Newer(user_search_history[u], since), rate_now)
                  /\ guild_search_history'[g] =
                        Append(Newer(guild_search_history[g], since), rate_now)
                  /\ \A a \in Users \ {u} : user_search_history'[a] = user_search_history[a]
                  /\ \A a \in Guilds \ {g} : guild_search_history'[a] = guild_search_history[a]
             ELSE /\ \A a \in Users :
                        user_search_history'[a] \in
                            {user_search_history[a], Newer(user_search_history[a], since)}
                  /\ \A a \in Guilds :
                        guild_search_history'[a] \in
                            {guild_search_history[a], Newer(guild_search_history[a], since)}]_vars

(* a call rejected for the guild's minute ceiling, made by a user whose    *)
(* own window is empty, has left that window empty                         *)
C12_Witness ==
    /\ rate_at = rate_now
    /\ ~rate_result.allowed
    /\ rate_result.message = "guild_minute"
    /\ user_search_history[rate_result.user] = <<>>
    /\ guild_search_history[rate_result.guild] # <<>>

(* C13: within a call of get_web_context the search backend is invoked     *)
(* only after check_rate_limit has accepted and recorded the request,      *)
(* whatever the user and guild arguments.                                  *)
C13_SearchOnlyAfterAccept ==
    w_calls # <<>> =>
        /\ w_limiter = "accepted"
        /\ rate_result = Returned(w_user, w_guild, TRUE, "")

(* C14 as claimed: get_web_context never raises; when the first search     *)
(* fails exactly one fallback search against DuckDuckGo is made, and when  *)
(* that fails or returns nothing the result is the empty string; at most   *)
(* two searches are made.                                                  *)
C14_OneFallback ==
    /\ ~w_raised
    /\ Len(w_calls) <= 2
    /\ (w_pc = "returned" /\ w_calls # <<>> /\ w_outcomes[1] = "raise") =>
          /\ w_calls = <<w_backend, "duckduckgo">>
          /\ w_outcomes[2] # "results" => w_result = "empty"

(* C14, amended: the same for the backend argument "auto"; with any other  *)
(* backend a failed first search is the only one and the result is the     *)
(* empty string.                                                           *)
C14_OneFallbackForAuto ==
    /\ ~w_raised
    /\ Len(w_calls) <= 2
    /\ (w_pc = "returned" /\ w_calls # <<>> /\ w_outcomes[1] = "raise") =>
          IF w_backend = "auto"
          THEN /\ w_calls = <<"auto", "duckduckgo">>
               /\ w_outcomes[2] # "results" => w_result = "empty"
               /\ w_outcomes[2] = "results" => w_result = "results"
          ELSE /\ w_calls = <<w_backend>>
               /\ w_result = "empty"
    /\ (w_pc = "returned" /\ w_calls # <<>> /\ w_outcomes[1] # "raise") => Len(w_calls) = 1

(* both searches of a call have failed *)
C14_Witness ==
    /\ w_pc = "returned"
    /\ w_outcomes = <<"raise", "raise">>
    /\ w_result = "empty"

(* the phrase occurs in the text at some offset *)
OccursIn(phrase, text) ==
    \E off \in 0..Len(text) :
        /\ off + Len(phrase) <= Len(text)
        /\ \A k \in 1..Len(phrase) : text[off + k] = phrase[k]

(* C15: should_trigger_search(text) is true exactly when the text has at   *)
(* least MIN_MESSAGE_LENGTH_FOR_SEARCH characters, its lower-cased form    *)
(* contains a positive trigger phrase and it contains no negative one.     *)
C15_TriggerIff ==
    trig_pc = "done" =>
        LET lowered == [k \in 1..Len(trig_text) |->
                           IF trig_text[k] = "I" THEN "i" ELSE trig_text[k]]
        IN  trig_out <=>
              /\ Len(trig_text) >= MIN_MESSAGE_LENGTH_FOR_SEARCH
              /\ \E phrase \in SEARCH_TRIGGERS : OccursIn(phrase, lowered)
              /\ ~ \E phrase \in NEGATIVE_SEARCH_TRIGGERS : OccursIn(phrase, lowered)

(* a text of exactly the minimum length whose trigger shows only after     *)
(* lower-casing                                                            *)
C15_Witness ==
    /\ trig_pc = "done"
    /\ trig_out
    /\ trig_text = <<" ", "I", "n">>

(* C16: between two resets of a session get_recent_context is invoked at   *)
(* most once, and only when the history is empty, the flag is false and    *)
(* CONTEXT_MESSAGES > 0; once the flag is true no exchange invokes it.     *)
C16_FetchOnce == fetches <= 1

(* C17: when the consumer cancels or abandons an open exchange, no         *)
(* assistant turn is appended, the statistics are unchanged and the user   *)
(* turn the exchange appended is not rolled back.                          *)
C17_CancelKeepsUserTurn ==
    [][\A t \in Tasks :
          (outcome[t] = "none" /\ outcome'[t] = "cancelled") =>
              /\ history' = history
              /\ channel_stats' = channel_stats
              /\ ~HasReply(history', msg[t])
              /\ (alone[t] /\ kept[t]) => Contains(history', UserTurn(msg[t]))]_vars

(* a stream abandoned after some deltas: the user turn is the last turn *)
C17_Witness ==
    \E t \in Tasks :
        /\ Ended(t) /\ outcome[t] = "cancelled" /\ alone[t] /\ kept[t]
        /\ yielded[t] # <<>>
        /\ history # <<>>
        /\ Last(history) = UserTurn(msg[t])

(* the error text an ended exchange yielded as its last delta; none when   *)
(* the generator ended by raising                                          *)
ErrorTextOf(t) ==
    IF outcome[t] \in {"status", "transport", "unexpected"} THEN outcome[t] ELSE "none"

(* C18: on every failure path of query_lmstudio the generator yields one   *)
(* error text, of the category of the failure, as its last delta.          *)
C18_ErrorTextOnEveryFailure ==
    \A t \in Tasks :
        (Ended(t) /\ outcome[t] \in Failures) => ErrorTextOf(t) # "none"

(* the position of a turn in a list that holds it once *)
PosOf(s, x) == CHOOSE i \in 1..Len(s) : s[i] = x
UserTurnsOf(s) == SelectSeq(s, LAMBDA m : m.role = "user")

(* C19: the normalized list holds every user turn of the history,          *)
(* unchanged and in order, and two user turns adjacent in the history are  *)
(* separated in it by exactly one synthetic assistant turn 'Understood.'.  *)
C19_UserRunsKept ==
    norm_pc = "built" =>
        /\ UserTurnsOf(norm_out) = UserTurnsOf(norm_in)
        /\ \A i \in 1..(Len(norm_in) - 1) :
              (norm_in[i].role = "user" /\ norm_in[i + 1].role = "user") =>
                  LET p == PosOf(norm_out, norm_in[i]) IN
                  /\ p + 2 <= Len(norm_out)
                  /\ norm_out[p + 1] = Understood
                  /\ norm_out[p + 2] = norm_in[i + 1]

(* a run of three user turns after an assistant turn *)
C19_Witness ==
    /\ norm_pc = "built"
    /\ Roles(norm_in) = <<"assistant", "user", "user", "user">>
    /\ norm_out = <<norm_in[1], norm_in[2], Understood, norm_in[3], Understood, norm_in[4]>>

Occurrences(text, tag) == Cardinality({i \in 1..Len(text) : MatchAt(text, i, tag)})

(* C21: with filtering enabled is_inside_thinking_tags(text) is true       *)
(* exactly when '<think>' occurs more often than '</think>' or '[THINK]'   *)
(* more often than '[/THINK]', in any case and any order; with filtering   *)
(* disabled it is false.                                                   *)
C21_InsideIffMoreOpens ==
    f_pc = "done" =>
        LET text == Flatten(f_parts) IN
        f_inside <=>
            /\ hide_thinking
            /\ \/ Occurrences(text, OPEN_TAG) > Occurrences(text, CLOSE_TAG)
               \/ Occurrences(text, BOPEN_TAG) > Occurrences(text, BCLOSE_TAG)

(* a lower-case close tag first, a closed angle pair, then two bracket     *)
(* open tags: inside, on the bracket count alone                           *)
C21_Witness ==
    /\ f_pc = "done"
    /\ hide_thinking
    /\ f_parts = <<BLOWER_CLOSE, MIXED_OPEN, CLOSE_TAG, BOPEN_TAG, BOPEN_TAG>>
    /\ f_inside

(* for each dialect the text has as many open tags as close tags *)
Balanced(text) ==
    /\ Occurrences(text, OPEN_TAG) = Occurrences(text, CLOSE_TAG)
    /\ Occurrences(text, BOPEN_TAG) = Occurrences(text, BCLOSE_TAG)

(* C22: for every text with as many open tags as close tags in each        *)
(* dialect, filtering the filtered text again changes nothing.             *)
C22_Idempotent ==
    (f_pc = "done" /\ Balanced(Flatten(f_parts))) => f_twice = f_out

(* the plain text of a text put together from plain pieces and segments *)
RECURSIVE PlainOutside(_)
PlainOutside(parts) ==
    IF parts = <<>> THEN <<>>
    ELSE (IF parts[1] \in PlainParts THEN parts[1] ELSE <<>>) \o PlainOutside(Tail(parts))

(* C23, as amended: with filtering enabled, for a text made of well-formed *)
(* paired segments of either dialect and tag-free plain text, the filter   *)
(* returns the plain text outside the segments with every run of blank     *)
(* lines collapsed to one blank line, whitespace-trimmed; a text of        *)
(* segments only yields the empty string.                                  *)
C23_PlainTextCollapsed ==
    (f_pc = "done" /\ hide_thinking) =>
        /\ f_out = Strip(CollapseBlankLines(PlainOutside(f_parts)))
        /\ (\A k \in 1..Len(f_parts) : f_parts[k] \in SegmentParts) => f_out = <<>>

(* a segment between two lines of plain text, three newlines meeting once  *)
(* the segment is gone                                                     *)
C23_Witness ==
    /\ f_pc = "done"
    /\ hide_thinking
    /\ f_parts = <<<<"a", "\n">>, ANGLE_SEGMENT, <<"\n", " ">>, <<"\n", "a">>>>
    /\ f_out = <<"a", "\n", "\n", "a">>

(* C23, as stated: the filter returns exactly the plain text outside the   *)
(* segments, whitespace-trimmed.                                           *)
C23_ExactlyPlainText ==
    (f_pc = "done" /\ hide_thinking) => f_out = Strip(PlainOutside(f_parts))

(* C24: whenever no exchange is in flight, total_messages is twice the     *)
(* number of exchanges that completed successfully since the last reset;   *)
(* an exchange that fails or is cancelled leaves the statistics unchanged. *)
C24_TwoPerSuccess ==
    /\ []((\A t \in Tasks : ~InFlight(t)) => channel_stats.total_messages = 2 * completed)
    /\ [][\A t \in Tasks :
            (outcome[t] = "none" /\ outcome'[t] \in Failures \cup {"cancelled"}) =>
                channel_stats' = channel_stats]_vars

(* two exchanges at once, one persisted and one failed, none in flight *)
C24_Witness ==
    /\ \A t \in Tasks : ~InFlight(t)
    /\ outcome[1] = "ok"
    /\ outcome[2] \in Failures
    /\ completed = 1
    /\ channel_stats.total_messages = 2

(* C25: after any number of successful exchanges response_times holds at   *)
(* most MAX_RESPONSE_TIMES entries.                                        *)
C25_ResponseTimesCapped == channel_stats.response_times <= MAX_RESPONSE_TIMES

(* C26: after an accepted reset the history is empty, context_loaded is    *)
(* false and the statistics are initial, so the next exchange of the       *)
(* session preloads context again: the first exchange to begin after a     *)
(* reset awaits get_recent_context.                                        *)
C26_NextExchangePreloads ==
    [][((\A t \in Tasks : ~kept[t]) /\ (\E t \in Tasks : kept'[t])) =>
           \E t \in Tasks : pc[t] = "idle" /\ pc'[t] = "fetching"]_vars

(* C27: an operation on one session (append, preload, trim, persist,      *)
(* rollback, reset) leaves the history, the context_loaded flag and the    *)
(* statistics of every other session unchanged, however the exchanges of   *)
(* different sessions interleave.                                          *)
C27_SessionsIsolated ==
    [][\A o \in Sessions :
          o # sess_last' =>
              /\ conversation_histories'[o] = conversation_histories[o]
              /\ context_loaded_of'[o] = context_loaded_of[o]
              /\ channel_stats_of'[o] = channel_stats_of[o]]_vars

(* session 1 holds a persisted exchange with its context, session 2 has    *)
(* just been reset while its own exchange is open                          *)
C27_Witness ==
    /\ sess_last = 2
    /\ sess_pc[2] = "open"
    /\ conversation_histories[2] = <<>>
    /\ ~context_loaded_of[2]
    /\ context_loaded_of[1]
    /\ channel_stats_of[1].total_messages = 2
    /\ Len(conversation_histories[1]) > 2

(* C28: when SIGINT or SIGTERM is handled, the statistics save and the     *)
(* guild-settings save have both been attempted before the process exits,  *)
(* whether or not an event loop is running when the signal arrives.        *)
C28_SavesBeforeExit ==
    sd_pc = "exited" => (stats_save # "none" /\ settings_save # "none")

(* C29: at an intermediate update whose interval has elapsed, when         *)
(* is_inside_thinking_tags(buffer) is true the only content written to the *)
(* status message is the thinking placeholder; the filtered text is        *)
(* written only when is_inside_thinking_tags(buffer) is false.             *)
C29_PlaceholderWhileInside ==
    [][(chunks' = chunks + 1 /\ n_edits' = n_edits + 1) =>
           /\ IntervalElapsed(now, last_update)
           /\ IF is_inside_thinking_tags(response_text')
              THEN status' = Placeholder
              ELSE status' = Shown("text", Truncate(remove_thinking_tags(response_text')))]_vars

(* an update just written while the buffer is inside a segment although    *)
(* the filter leaves text to show: the status message is the placeholder   *)
C29_Witness ==
    /\ d_pc = "streaming"
    /\ last_edit = now
    /\ n_edits >= 2
    /\ is_inside_thinking_tags(response_text)
    /\ Strip(remove_thinking_tags(response_text)) # <<>>
    /\ status = Placeholder

(* the non-empty content fragments of the well-formed 'data: ' lines that  *)
(* come before the first '[DONE]' line, in arrival order                   *)
RECURSIVE FragmentsBeforeDone(_)
FragmentsBeforeDone(ls) ==
    IF ls = <<>> \/ ls[1] = Line("data: ", DONE) THEN <<>>
    ELSE (IF ls[1].prefix = "data: " /\ ls[1].payload \in Fragments
          THEN <<ls[1].payload>> ELSE <<>>) \o FragmentsBeforeDone(Tail(ls))

(* C30: the deltas yielded by a 200 response are exactly the non-empty     *)
(* content fragments of the well-formed 'data:' frames before the first    *)
(* '[DONE]' frame, in arrival order; a malformed frame yields nothing and  *)
(* does not end the stream; nothing after '[DONE]' is yielded or           *)
(* accumulated.                                                            *)
C30_ExactlyContentFragments ==
    stream_pc \in {"ended", "failed"} =>
        /\ stream_yielded = FragmentsBeforeDone(lines)
        /\ stream_message = FragmentsBeforeDone(lines)

(* no timestamp of the window is one hour old or older *)
Fresh(hist) == \A i \in 1..Len(hist) : rate_now - hist[i] < HOUR

(* the latest call of check_rate_limit has just returned *)
JustReturned == rate_at = rate_now /\ rate_result # NoCall

(* C31, as amended: after every call of check_rate_limit(user, guild) the  *)
(* user's window holds no timestamp one hour old or older; the guild's     *)
(* window holds none when the call got past the two user ceilings, that    *)
(* is, when it accepted or rejected on the guild ceiling.                  *)
C31_WindowsPrunedWhenReached ==
    JustReturned =>
        /\ Fresh(user_search_history[rate_result.user])
        /\ rate_result.message \notin {"user_minute", "user_hour"} =>
              Fresh(guild_search_history[rate_result.guild])

(* a call rejected on the user's per-minute ceiling: the user's window is  *)
(* pruned, the guild's window still holds a timestamp one hour old         *)
C31_Witness ==
    /\ JustReturned
    /\ rate_result.message = "user_minute"
    /\ Fresh(user_search_history[rate_result.user])
    /\ user_search_history[rate_result.user] # <<>>
    /\ ~Fresh(guild_search_history[rate_result.guild])

(* C31, as stated: after every call, accepting or rejecting, neither the   *)
(* user's nor the guild's window holds a timestamp one hour old or older.  *)
C31_BothWindowsPruned ==
    JustReturned =>
        /\ Fresh(user_search_history[rate_result.user])
        /\ Fresh(guild_search_history[rate_result.guild])

(* a step that is a call of check_search_cooldown *)
CooldownCall == cd_at' = cd_now /\ cd_now' = cd_now /\ search_cooldowns' = search_cooldowns

(* the guild's last recorded search is less than SEARCH_COOLDOWN old *)
OnCooldown(g) == g # None /\ cd_now - search_cooldowns[g] < COOLDOWN_TICKS

(* C32: for a guild whose last recorded search is less than                *)
(* SEARCH_COOLDOWN seconds old check_search_cooldown returns remaining     *)
(* seconds r with 0 < r <= SEARCH_COOLDOWN; it returns None exactly when   *)
(* the cooldown has elapsed, the guild never searched, or there is no      *)
(* guild.                                                                  *)
C32_RemainingPositive ==
    [][CooldownCall =>
          IF OnCooldown(cd_guild')
          THEN 0 < cd_result' /\ cd_result' <= SEARCH_COOLDOWN
          ELSE cd_result' = NoCooldown]_vars

(* the ways a status message is finalized *)
FinalKinds == {"text", "only_thinking", "no_response", "error", "deleted"}

C34_NoBlankContent ==
    /\ status.kind = "text" => Strip(status.text) # <<>>
    /\ \A k \in 1..Len(sent) : Strip(sent[k]) # <<>>

(* C35: an intermediate update that writes text writes the filtered buffer *)
(* when it has at most DISPLAY_LIMIT (1900) characters and otherwise its   *)
(* first DISPLAY_LIMIT characters followed by "...", so that no            *)
(* intermediate edit is longer than DISPLAY_LIMIT + 3 characters or than   *)
(* the message limit; inside a reasoning segment it writes the placeholder.*)
C35_IntermediateTextTruncated ==
    [][n_edits' # n_edits =>
          LET display_text == remove_thinking_tags(response_text') IN
          IF is_inside_thinking_tags(response_text')
          THEN status' = Placeholder
          ELSE /\ status'.kind = "text"
               /\ status'.text = IF Len(display_text) <= DISPLAY_LIMIT
                                 THEN display_text
                                 ELSE SubSeq(display_text, 1, DISPLAY_LIMIT) \o ELLIPSIS
               /\ Len(status'.text) <= DISPLAY_LIMIT + Len(ELLIPSIS)
               /\ Len(status'.text) <= MESSAGE_LIMIT]_vars

(* an intermediate edit has just written a buffer longer than the display  *)
(* limit, cut and marked                                                   *)
C35_Witness ==
    /\ d_pc = "streaming"
    /\ n_edits >= 1
    /\ last_edit = now
    /\ Len(remove_thinking_tags(response_text)) > DISPLAY_LIMIT
    /\ status.kind = "text"
    /\ Len(status.text) = DISPLAY_LIMIT + Len(ELLIPSIS)
    /\ SubSeq(status.text, 1, DISPLAY_LIMIT) = SubSeq(remove_thinking_tags(response_text), 1, DISPLAY_LIMIT)

(* C36: pressed on a history whose turns all have role user or assistant,  *)
(* clear-last removes exactly min(2, len(history)) turns from its tail and *)
(* leaves the remaining prefix unchanged and in order.                     *)
C36_ClearLastRemovesTail ==
    [][(cl_pc' \in {"nothing", "cleared"}
          /\ \A i \in 1..Len(cl_history) : cl_history[i].role \in {"user", "assistant"}) =>
             LET n == IF Len(cl_history) < 2 THEN Len(cl_history) ELSE 2 IN
             /\ Len(cl_history') = Len(cl_history) - n
             /\ cl_history' = SubSeq(cl_history, 1, Len(cl_history) - n)]_vars

(* two turns were removed from a history of user and assistant turns that  *)
(* had more than two                                                       *)
C36_Witness ==
    /\ cl_pc = "cleared"
    /\ Len(cl_before) > 2
    /\ \A i \in 1..Len(cl_before) : cl_before[i].role \in {"user", "assistant"}
    /\ cl_history = SubSeq(cl_before, 1, Len(cl_before) - 2)

(* the accepted changes of a guild in the hour that ends at time t *)
AcceptedInHourTo(g, t) ==
    {i \in 1..Len(accepted_at[g]) : accepted_at[g][i] <= t /\ t - accepted_at[g][i] < HOUR}

(* C37: for each guild, the calls of validate_system_prompt accepted       *)
(* within any one-hour window are at most MAX_PROMPT_CHANGES_PER_HOUR, and *)
(* a call rejected for a suspicious pattern or for the rate ceiling        *)
(* records no timestamp and leaves the quota of every guild as it was.     *)
C37_PromptQuota ==
    /\ [](\A g \in Guilds : \A t \in 0..pr_now :
             Cardinality(AcceptedInHourTo(g, t)) <= MAX_PROMPT_CHANGES_PER_HOUR)
    /\ [][(pr_now' = pr_now /\ ~pr_call'.valid) =>
             /\ accepted_at' = accepted_at
             /\ \A g \in Guilds :
                   /\ Len(prompt_change_timestamps'[g]) <= Len(prompt_change_timestamps[g])
                   /\ Within(prompt_change_timestamps'[g], pr_now, HOUR)
                         = Within(prompt_change_timestamps[g], pr_now, HOUR)
             /\ pr_call'.why = "pattern" =>
                   prompt_change_timestamps' = prompt_change_timestamps]_vars

(* a guild at its ceiling was refused, after earlier changes of its own    *)
(* had left the window                                                     *)
C37_Witness ==
    /\ pr_call.why = "rate"
    /\ Len(accepted_at[pr_call.guild]) > MAX_PROMPT_CHANGES_PER_HOUR
    /\ Len(prompt_change_timestamps[pr_call.guild]) = MAX_PROMPT_CHANGES_PER_HOUR

(* C38: a failed exchange leaves the history as it was before its user     *)
(* turn was appended (context preloaded by the exchange included), also    *)
(* when that history was already at its capacity of 2 x MAX_HISTORY turns; *)
(* stated for an exchange no other exchange and no reset ran across, whose *)
(* history before the append is the turns the trim dropped followed by the *)
(* stored turns but the last.                                              *)
C38_FailedExchangeNoOp ==
    [][\A t \in Tasks :
          (/\ pc[t] \in {"posted", "streaming"}
           /\ pc'[t] = "idle"
           /\ outcome'[t] \in {"status", "transport", "unexpected"}
           /\ alone[t] /\ kept[t]) =>
                history' = dropped \o ButLast(history)]_vars

AttemptsOf(step) == {i \in 1..Len(attempts) : attempts[i].step = step}

(* C39: over any number of calls of cleanup, one after the other or        *)
(* interleaved at its awaits, each of the four steps is executed at most   *)
(* once, all by the same call; a call that finds the flag raised returns   *)
(* without doing anything.                                                 *)
C39_StepsAtMostOnce ==
    /\ [](\A k \in 1..Len(STEPS) : Cardinality(AttemptsOf(STEPS[k])) <= 1)
    /\ [](\A i \in 1..Len(attempts) : attempts[i].call = attempts[1].call)
    /\ [][\A c \in Callers :
             (cleanup_calls[c] = "idle" /\ cleanup_calls'[c] # "idle" /\ shutdown_initiated) =>
                 /\ cleanup_calls'[c] = "returned"
                 /\ attempts' = attempts
                 /\ raised' = raised]_vars

(* a second call came and returned while the first was suspended in the    *)
(* gather of the voice disconnects                                         *)
C39_Witness ==
    \E c1 \in Callers, c2 \in Callers :
        /\ c1 # c2
        /\ cleanup_calls[c1] = "voice"
        /\ cleanup_calls[c2] = "returned"
        /\ Len(attempts) = 3
        /\ attempts[1].call = c1

(* C40: the first call of cleanup attempts the steps in the order save     *)
(* statistics, save guild settings, disconnect voice clients, close the    *)
(* bot, and a step that raises does not prevent the later ones: the close  *)
(* is attempted whatever the earlier steps did.                            *)
C40_AllStepsInOrder ==
    /\ Len(attempts) <= Len(STEPS)
    /\ \A i \in 1..Len(attempts) : i <= Len(STEPS) => attempts[i].step = STEPS[i]
    /\ \A c \in Callers :
          /\ cleanup_calls[c] = "voice" => Len(attempts) = 3 /\ attempts[1].call = c
          /\ (cleanup_calls[c] \in {"close", "returned"} /\ attempts # <<>>
                /\ attempts[1].call = c) => Len(attempts) = 4
    /\ (\E c \in Callers : cleanup_calls[c] # "idle") => attempts # <<>>

(* the first call has returned, every step was attempted and the three     *)
(* before the close raised                                                 *)
C40_Witness ==
    \E c \in Callers :
        /\ cleanup_calls[c] = "returned"
        /\ attempts = By(c, STEPS)
        /\ {STEPS[1], STEPS[2], STEPS[3]} \subseteq raised

====
